---- MODULE Spec2Model ----
(***************************************************************************)
(* FAT32 emulator (fat32.c, disc_io.c, cli.c): the image file as a sparse  *)
(* array of 512-byte sectors, the session context, and one action per      *)
(* shell command.  A sector that is absent from `disk` is all zero.        *)
(***************************************************************************)
EXTENDS Integers, Sequences, FiniteSets, TLC

VARIABLES disk, disk_size, ctx, ret

vars == <<disk, disk_size, ctx, ret>>

-----------------------------------------------------------------------------
(* Program constants (fat32.h).                                             *)
SECTOR_SIZE == 512
CLUSTER_SIZE == 4096
TOTAL_SECTORS == 40960
RESERVED_SECTORS == 32
FAT_COUNT == 2
ROOT_CLUSTER == 2
ATTR_DIRECTORY == 16
ATTR_ARCHIVE == 32
FAT_SIZE_32 == 256
DIRENT_SIZE == 32
PATH_MAX_LEN == 256
SIGNATURE == 43605
EOC == 268435455
MEDIA_ENTRY == 268435448
FAT_MASK == 268435456
SEEK_WRAP == 8388608

(* Character codes used by the code's string literals.                      *)
CH_NUL == 0
CH_SPACE == 32
CH_DOT == 46
CH_SLASH == 47
CH_DELETED == 229

(* Bounds of the model.                                                     *)
MaxCluster == 3

SECTORS_PER_CLUSTER == CLUSTER_SIZE \div SECTOR_SIZE
ENTRIES_PER_SECTOR == SECTOR_SIZE \div DIRENT_SIZE
ENTRY_COUNT == CLUSTER_SIZE \div DIRENT_SIZE
FAT_PER_SECTOR == SECTOR_SIZE \div 4

Max(a, b) == IF a >= b THEN a ELSE b
Min(a, b) == IF a <= b THEN a ELSE b

-----------------------------------------------------------------------------
(* Sector contents.  A sector is the zero sector, a boot sector, a sector   *)
(* of 128 FAT entries or a sector of 16 directory entries.                  *)
ZeroSector == [kind |-> "zero"]

ZeroName == [i \in 1..11 |-> CH_NUL]
ZeroEntry == [name |-> ZeroName, attr |-> 0, cluster_high |-> 0,
              cluster_low |-> 0, file_size |-> 0]
ZeroDir == [i \in 0..(ENTRIES_PER_SECTOR - 1) |-> ZeroEntry]
ZeroFat == [i \in 0..(FAT_PER_SECTOR - 1) |-> 0]

FS_TYPE_FAT32 == <<70, 65, 84, 51, 50, 32, 32, 32>>
FS_PREFIX == <<70, 65, 84, 51, 50>>
ZeroBoot == [signature |-> 0, fs_type |-> [i \in 1..8 |-> CH_NUL],
             bytes_per_sector |-> 0, sectors_per_cluster |-> 0,
             reserved_sectors |-> 0, fat_count |-> 0, total_sectors_32 |-> 0,
             fat_size_32 |-> 0, root_cluster |-> 0, fs_info |-> 0,
             backup_boot |-> 0]

DirSector(e) == IF e = ZeroDir THEN ZeroSector ELSE [kind |-> "dir", e |-> e]
FatSector(e) == IF e = ZeroFat THEN ZeroSector ELSE [kind |-> "fat", e |-> e]
BootSector(b) == IF b = ZeroBoot THEN ZeroSector ELSE [kind |-> "boot", b |-> b]

AsDir(sec) == IF sec.kind = "dir" THEN sec.e ELSE ZeroDir
AsFat(sec) == IF sec.kind = "fat" THEN sec.e ELSE ZeroFat
AsBoot(sec) == IF sec.kind = "boot" THEN sec.b ELSE ZeroBoot

Get(d, s) == IF s \in DOMAIN d THEN d[s] ELSE ZeroSector
Put(d, s, buf) ==
    IF buf = ZeroSector
    THEN IF s \in DOMAIN d THEN [x \in DOMAIN d \ {s} |-> d[x]] ELSE d
    ELSE [x \in DOMAIN d \cup {s} |-> IF x = s THEN buf ELSE d[x]]

-----------------------------------------------------------------------------
(* Block I/O.  io = [disk, size, budget]: the image, its length in sectors  *)
(* and the number of sector writes the device still accepts (-1: all).      *)
NoFault == -1

(* fseek(sector * SECTOR_SIZE) in 32-bit unsigned arithmetic: the byte      *)
(* offset wraps at 2^32, the sector reached at 2^32 / 512.                  *)
SectorIndex(sector) == sector % SEEK_WRAP

fat32_read_sector(io, sector) ==
    LET s == SectorIndex(sector)
    IN  IF s >= io.size THEN [rc |-> -1, buf |-> ZeroSector]
        ELSE [rc |-> 0, buf |-> Get(io.disk, s)]

fat32_write_sector(io, sector, buf) ==
    LET s == SectorIndex(sector)
    IN  IF io.budget = 0 THEN [rc |-> -1, io |-> io]
        ELSE [rc |-> 0,
              io |-> [disk |-> Put(io.disk, s, buf),
                      size |-> Max(io.size, s + 1),
                      budget |-> IF io.budget > 0 THEN io.budget - 1 ELSE io.budget]]

(* A run of sector writes ws[lo..hi] in order, stopping at the first       *)
(* failure (evaluated by halves to keep the evaluation shallow).            *)
RECURSIVE WriteRange(_, _, _, _)
WriteRange(io, ws, lo, hi) ==
    IF lo > hi THEN [rc |-> 0, io |-> io]
    ELSE IF lo = hi THEN fat32_write_sector(io, ws[lo].sector, ws[lo].buf)
    ELSE LET mid == (lo + hi) \div 2
             w == WriteRange(io, ws, lo, mid)
         IN  IF w.rc # 0 THEN w ELSE WriteRange(w.io, ws, mid + 1, hi)

WriteAll(io, ws) == WriteRange(io, ws, 1, Len(ws))

-----------------------------------------------------------------------------
(* Cluster I/O.                                                             *)
ClusterSector(c, cluster) ==
    c.data_start + (cluster - 2) * SECTORS_PER_CLUSTER

(* A cluster buffer is 8 sectors of 16 directory entries: entry k of the    *)
(* buffer is buf[k \div 16][k % 16].                                        *)
EntryAt(buf, k) == buf[k \div ENTRIES_PER_SECTOR][k % ENTRIES_PER_SECTOR]
SetEntry(buf, k, entry) ==
    [buf EXCEPT ![k \div ENTRIES_PER_SECTOR][k % ENTRIES_PER_SECTOR] = entry]
ZeroCluster == [i \in 0..(SECTORS_PER_CLUSTER - 1) |-> ZeroDir]

fat32_read_cluster(io, c, cluster) ==
    IF cluster < 2 THEN [rc |-> -1, buf |-> ZeroCluster]
    ELSE LET sector == ClusterSector(c, cluster)
         IN  IF \E i \in 0..(SECTORS_PER_CLUSTER - 1) :
                    fat32_read_sector(io, sector + i).rc # 0
             THEN [rc |-> -1, buf |-> ZeroCluster]
             ELSE [rc |-> 0,
                   buf |-> [i \in 0..(SECTORS_PER_CLUSTER - 1) |->
                              AsDir(fat32_read_sector(io, sector + i).buf)]]

(* The eight transfers started one sector late.                             *)
fat32_write_cluster_shifted(io, c, cluster, buf) ==
    IF cluster < 2 THEN [rc |-> -1, io |-> io]
    ELSE LET sector == ClusterSector(c, cluster) + 1
             ws == [i \in 1..SECTORS_PER_CLUSTER |->
                      [sector |-> sector + (i - 1), buf |-> DirSector(buf[i - 1])]]
         IN  WriteAll(io, ws)

fat32_write_cluster(io, c, cluster, buf) ==
    IF cluster < 2 THEN [rc |-> -1, io |-> io]
    ELSE LET sector == ClusterSector(c, cluster)
             ws == [i \in 1..SECTORS_PER_CLUSTER |->
                      [sector |-> sector + (i - 1), buf |-> DirSector(buf[i - 1])]]
         IN  WriteAll(io, ws)

-----------------------------------------------------------------------------
(* FAT table.                                                               *)
(* The read without the test against total_clusters.                        *)
fat32_get_fat_entry_unbounded(io, c, cluster) ==
    LET fat_sector == c.fat_start + (cluster * 4) \div SECTOR_SIZE
        fat_offset == (cluster * 4) % SECTOR_SIZE
        r == fat32_read_sector(io, fat_sector)
    IN  IF r.rc # 0 THEN EOC
        ELSE AsFat(r.buf)[fat_offset \div 4] % FAT_MASK

fat32_get_fat_entry(io, c, cluster) ==
    IF cluster >= c.total_clusters THEN EOC
    ELSE LET fat_sector == c.fat_start + (cluster * 4) \div SECTOR_SIZE
             fat_offset == (cluster * 4) % SECTOR_SIZE
             r == fat32_read_sector(io, fat_sector)
         IN  IF r.rc # 0 THEN EOC
             ELSE AsFat(r.buf)[fat_offset \div 4] % FAT_MASK

(* The update loop stopping after the first FAT copy.                       *)
SetFatFirstCopyOnly(io, c, cluster, value, fat_copy) ==
    LET fat_sector == c.fat_start + (cluster * 4) \div SECTOR_SIZE
        fat_offset == (cluster * 4) % SECTOR_SIZE
        r == fat32_read_sector(io, fat_sector)
        new == [AsFat(r.buf) EXCEPT ![fat_offset \div 4] =
                   (@ \div FAT_MASK) * FAT_MASK + value]
    IN  IF r.rc # 0 THEN [rc |-> -1, io |-> io]
        ELSE fat32_write_sector(io, fat_sector, FatSector(new))

(* The update loop storing the value over the whole slot.                   *)
RECURSIVE SetFatCopiesClearTop(_, _, _, _, _)
SetFatCopiesClearTop(io, c, cluster, value, fat_copy) ==
    IF fat_copy >= FAT_COUNT THEN [rc |-> 0, io |-> io]
    ELSE LET fat_sector == c.fat_start + (fat_copy * c.fat_size)
                               + (cluster * 4) \div SECTOR_SIZE
             fat_offset == (cluster * 4) % SECTOR_SIZE
             r == fat32_read_sector(io, fat_sector)
             new == [AsFat(r.buf) EXCEPT ![fat_offset \div 4] = value]
             w == fat32_write_sector(io, fat_sector, FatSector(new))
         IN  IF r.rc # 0 THEN [rc |-> -1, io |-> io]
             ELSE IF w.rc # 0 THEN w
             ELSE SetFatCopiesClearTop(w.io, c, cluster, value, fat_copy + 1)

RECURSIVE SetFatCopies(_, _, _, _, _)
SetFatCopies(io, c, cluster, value, fat_copy) ==
    IF fat_copy >= FAT_COUNT THEN [rc |-> 0, io |-> io]
    ELSE LET fat_sector == c.fat_start + (fat_copy * c.fat_size)
                               + (cluster * 4) \div SECTOR_SIZE
             fat_offset == (cluster * 4) % SECTOR_SIZE
             r == fat32_read_sector(io, fat_sector)
             old == AsFat(r.buf)
             new == [old EXCEPT ![fat_offset \div 4] =
                        (@ \div FAT_MASK) * FAT_MASK + value]
             w == fat32_write_sector(io, fat_sector, FatSector(new))
         IN  IF r.rc # 0 THEN [rc |-> -1, io |-> io]
             ELSE IF w.rc # 0 THEN w
             ELSE SetFatCopies(w.io, c, cluster, value, fat_copy + 1)

(* The entry written as zero whatever the value asked for.                  *)
fat32_set_fat_entry_high_bits(io, c, cluster, value) ==
    IF cluster >= c.total_clusters THEN [rc |-> -1, io |-> io]
    ELSE SetFatCopies(io, c, cluster, 0, 0)

fat32_set_fat_entry(io, c, cluster, value) ==
    IF cluster >= c.total_clusters THEN [rc |-> -1, io |-> io]
    ELSE SetFatCopies(io, c, cluster, value % FAT_MASK, 0)

(* The scan run from the last cluster down.                                 *)
RECURSIVE FindFreeInDown(_, _, _, _)
FindFreeInDown(io, c, first, last) ==
    IF first > last THEN 0
    ELSE IF first = last
         THEN IF fat32_get_fat_entry(io, c, first) = 0 THEN first ELSE 0
    ELSE LET mid == (first + last) \div 2
             high == FindFreeInDown(io, c, mid + 1, last)
         IN  IF high # 0 THEN high ELSE FindFreeInDown(io, c, first, mid)

(* The loop "for cluster = first .. last": the lowest cluster of the range   *)
(* whose FAT entry reads 0, 0 when there is none (evaluated by halves, the  *)
(* lower half first, to keep the evaluation shallow).                       *)
RECURSIVE FindFreeIn(_, _, _, _)
FindFreeIn(io, c, first, last) ==
    IF first > last THEN 0
    ELSE IF first = last
         THEN IF fat32_get_fat_entry(io, c, first) = 0 THEN first ELSE 0
    ELSE LET mid == (first + last) \div 2
             low == FindFreeIn(io, c, first, mid)
         IN  IF low # 0 THEN low ELSE FindFreeIn(io, c, mid + 1, last)

(* The scan ending one cluster early.                                       *)
fat32_find_free_cluster_short(io, c) == FindFreeIn(io, c, 2, c.total_clusters - 2)

(* The search handing out the cluster after the root whatever the FAT says. *)
fat32_find_free_cluster_fixed(io, c) == ROOT_CLUSTER + 1

fat32_find_free_cluster(io, c) == FindFreeIn(io, c, 2, c.total_clusters - 1)

-----------------------------------------------------------------------------
(* Boot sector and format.                                                  *)
(* The division of line 80 has the divisor read from the image.  With       *)
(* divisor 0 the behaviour is undefined: the process is killed by SIGFPE    *)
(* where the division traps (the sessions take that outcome as a step of    *)
(* their own, see Crash), and goes on with quotient 0 where it does not.    *)
SIGFPE == 8

Geometry(c, bs) ==
    LET data_start == bs.reserved_sectors + bs.fat_count * bs.fat_size_32
    IN  [c EXCEPT !.fat_size = bs.fat_size_32,
                  !.fat_start = bs.reserved_sectors,
                  !.data_start = data_start,
                  !.total_clusters =
                      IF bs.sectors_per_cluster = 0 THEN 0
                      ELSE (TOTAL_SECTORS - data_start) \div bs.sectors_per_cluster]

IsPrefix(p, s) == Len(p) <= Len(s) /\ \A i \in 1..Len(p) : s[i] = p[i]

(* Validation that accepts every sector 0 it can read.                      *)
fat32_is_valid_unchecked(io, c) ==
    IF fat32_read_sector(io, 0).rc # 0 THEN [rc |-> -1, c |-> c] ELSE [rc |-> 0, c |-> c]

(* The validation putting the cursor back on the root.                      *)
fat32_is_valid_rewinding(io, c) ==
    LET r == fat32_read_sector(io, 0)
        bs == AsBoot(r.buf)
    IN  IF r.rc # 0 THEN [rc |-> -1, c |-> c]
        ELSE IF bs.signature # SIGNATURE THEN [rc |-> -1, c |-> c]
        ELSE IF ~IsPrefix(FS_PREFIX, bs.fs_type) THEN [rc |-> -1, c |-> c]
        ELSE [rc |-> 0, c |-> [Geometry(c, bs) EXCEPT !.current_cluster = ROOT_CLUSTER,
                                                      !.current_path = <<CH_SLASH>>]]

fat32_is_valid(io, c) ==
    LET r == fat32_read_sector(io, 0)
        bs == AsBoot(r.buf)
    IN  IF r.rc # 0 THEN [rc |-> -1, c |-> c]
        ELSE IF bs.signature # SIGNATURE THEN [rc |-> -1, c |-> c]
        ELSE IF ~IsPrefix(FS_PREFIX, bs.fs_type) THEN [rc |-> -1, c |-> c]
        ELSE [rc |-> 0, c |-> Geometry(c, bs)]

DOT_NAME == [i \in 1..11 |-> IF i = 1 THEN CH_DOT ELSE CH_SPACE]
DOTDOT_NAME == [i \in 1..11 |-> IF i <= 2 THEN CH_DOT ELSE CH_SPACE]

(* The cluster number taken from the high half alone.                      *)
fat32_get_cluster_from_entry_high(entry) == entry.cluster_high

fat32_get_cluster_from_entry(entry) == entry.cluster_high * 65536 + entry.cluster_low

fat32_set_cluster_to_entry(entry, cluster) ==
    [entry EXCEPT !.cluster_high = (cluster \div 65536) % 65536,
                  !.cluster_low = cluster % 65536]

DirEntryOf(name, attr, cluster) ==
    fat32_set_cluster_to_entry([ZeroEntry EXCEPT !.name = name, !.attr = attr], cluster)

(* The two pointers exchanged: "." to the parent, ".." to the cluster.      *)
NewDirBufferSwapped(self, parent) ==
    SetEntry(SetEntry(ZeroCluster, 0, DirEntryOf(DOT_NAME, ATTR_DIRECTORY, parent)),
             1, DirEntryOf(DOTDOT_NAME, ATTR_DIRECTORY, self))

(* The new directory with ".." pointing to the root whatever its parent.    *)
NewDirBufferUnderRoot(self, parent) ==
    SetEntry(SetEntry(ZeroCluster, 0, DirEntryOf(DOT_NAME, ATTR_DIRECTORY, self)),
             1, DirEntryOf(DOTDOT_NAME, ATTR_DIRECTORY,
                           IF parent = 0 THEN 0 ELSE ROOT_CLUSTER))

(* A zeroed cluster buffer with "." and ".." in slots 0 and 1.              *)
NewDirBuffer(self, parent) ==
    SetEntry(SetEntry(ZeroCluster, 0, DirEntryOf(DOT_NAME, ATTR_DIRECTORY, self)),
             1, DirEntryOf(DOTDOT_NAME, ATTR_DIRECTORY, parent))

FormatBoot ==
    [signature |-> SIGNATURE, fs_type |-> FS_TYPE_FAT32,
     bytes_per_sector |-> SECTOR_SIZE,
     sectors_per_cluster |-> CLUSTER_SIZE \div SECTOR_SIZE,
     reserved_sectors |-> RESERVED_SECTORS, fat_count |-> FAT_COUNT,
     total_sectors_32 |-> TOTAL_SECTORS, fat_size_32 |-> FAT_SIZE_32,
     root_cluster |-> ROOT_CLUSTER, fs_info |-> 1, backup_boot |-> 6]

FirstFatSector == [ZeroFat EXCEPT ![0] = MEDIA_ENTRY, ![1] = EOC]

(* "Write first sector of both FATs".                                       *)
FormatFatWrites(c) ==
    [i \in 1..FAT_COUNT |->
        [sector |-> c.fat_start + (i - 1) * c.fat_size, buf |-> FatSector(FirstFatSector)]]

(* Zero sectors written to first, first+1, ... while the device accepts     *)
(* writes: the loop body of "Clear remaining FAT sectors" for one copy.     *)
ClearSectors(io, first, count) ==
    LET n == IF io.budget < 0 THEN count ELSE Min(count, io.budget)
    IN  [rc |-> IF n = count THEN 0 ELSE -1,
         io |-> [disk |-> [x \in {k \in DOMAIN io.disk :
                                     ~(SectorIndex(first) <= k /\ k < SectorIndex(first) + n)}
                             |-> io.disk[x]],
                 size |-> IF n > 0 THEN Max(io.size, SectorIndex(first) + n) ELSE io.size,
                 budget |-> IF io.budget > 0 THEN io.budget - n ELSE io.budget]]

(* Format leaving the FAT sectors after the first as they were.             *)
ClearFatCopiesSkipped(io, c, fat_copy) == [rc |-> 0, io |-> io]

RECURSIVE ClearFatCopies(_, _, _)
ClearFatCopies(io, c, fat_copy) ==
    IF fat_copy >= FAT_COUNT THEN [rc |-> 0, io |-> io]
    ELSE LET w == ClearSectors(io, c.fat_start + fat_copy * c.fat_size + 1,
                               c.fat_size - 1)
         IN  IF w.rc # 0 THEN w ELSE ClearFatCopies(w.io, c, fat_copy + 1)

(* Format without the write of the root directory cluster.                  *)
fat32_format_keep_root(io, c) ==
    LET w0 == fat32_write_sector(io, 0, BootSector(FormatBoot))
        c1 == Geometry(c, FormatBoot)
        w1 == WriteAll(w0.io, FormatFatWrites(c1))
        w2 == ClearFatCopies(w1.io, c1, 0)
        w4 == fat32_set_fat_entry(w2.io, c1, ROOT_CLUSTER, EOC)
    IN  [rc |-> w4.rc, io |-> w4.io, c |-> c1]

fat32_format(io, c) ==
    LET w0 == fat32_write_sector(io, 0, BootSector(FormatBoot))
        c1 == Geometry(c, FormatBoot)
        w1 == WriteAll(w0.io, FormatFatWrites(c1))
        w2 == ClearFatCopies(w1.io, c1, 0)
        w3 == fat32_write_cluster(w2.io, c1, ROOT_CLUSTER, NewDirBuffer(ROOT_CLUSTER, 0))
        w4 == fat32_set_fat_entry(w3.io, c1, ROOT_CLUSTER, EOC)
    IN  IF w0.rc # 0 THEN [rc |-> -1, io |-> w0.io, c |-> c]
        ELSE IF w1.rc # 0 THEN [rc |-> -1, io |-> w1.io, c |-> c1]
        ELSE IF w2.rc # 0 THEN [rc |-> -1, io |-> w2.io, c |-> c1]
        ELSE IF w3.rc # 0 THEN [rc |-> -1, io |-> w3.io, c |-> c1]
        ELSE IF w4.rc # 0 THEN [rc |-> -1, io |-> w4.io, c |-> c1]
        ELSE [rc |-> 0, io |-> w4.io, c |-> c1]

-----------------------------------------------------------------------------
(* Directory module.                                                        *)
RECURSIVE IndexOf(_, _, _)
IndexOf(s, ch, i) ==
    IF i > Len(s) THEN 0 ELSE IF s[i] = ch THEN i ELSE IndexOf(s, ch, i + 1)

(* toupper, and the normalization with the commented-out uppercase loop     *)
(* switched on.                                                             *)
Upper(ch) == IF ch \in 97..122 THEN ch - 32 ELSE ch

fat32_format_name_upper(name) ==
    IF name = <<CH_DOT>> THEN DOT_NAME
    ELSE IF name = <<CH_DOT, CH_DOT>> THEN DOTDOT_NAME
    ELSE LET dot == IndexOf(name, CH_DOT, 1)
         IN  IF dot # 0
             THEN LET name_len == Min(dot - 1, 8)
                      ext_len == Min(Len(name) - dot, 3)
                  IN  [i \in 1..11 |->
                         IF i <= name_len THEN Upper(name[i])
                         ELSE IF i >= 9 /\ i - 8 <= ext_len THEN Upper(name[dot + (i - 8)])
                         ELSE CH_SPACE]
             ELSE LET name_len == Min(Len(name), 11)
                  IN  [i \in 1..11 |-> IF i <= name_len THEN Upper(name[i]) ELSE CH_SPACE]

fat32_format_name(name) ==
    IF name = <<CH_DOT>> THEN DOT_NAME
    ELSE IF name = <<CH_DOT, CH_DOT>> THEN DOTDOT_NAME
    ELSE LET dot == IndexOf(name, CH_DOT, 1)
         IN  IF dot # 0
             THEN LET name_len == Min(dot - 1, 8)
                      ext_len == Min(Len(name) - dot, 3)
                  IN  [i \in 1..11 |->
                         IF i <= name_len THEN name[i]
                         ELSE IF i >= 9 /\ i - 8 <= ext_len THEN name[dot + (i - 8)]
                         ELSE CH_SPACE]
             ELSE LET name_len == Min(Len(name), 11)
                  IN  [i \in 1..11 |-> IF i <= name_len THEN name[i] ELSE CH_SPACE]

(* A scan that never matches.                                               *)
FindEntryNever(buf, formatted_name, dir_only, i) == -1

(* The scan matching files as well as directories.                          *)
RECURSIVE FindEntryAnyKind(_, _, _, _)
FindEntryAnyKind(buf, formatted_name, dir_only, i) ==
    IF i >= ENTRY_COUNT THEN -1
    ELSE IF EntryAt(buf, i).name[1] = CH_NUL THEN -1
    ELSE IF EntryAt(buf, i).name[1] = CH_DELETED
         THEN FindEntryAnyKind(buf, formatted_name, dir_only, i + 1)
    ELSE IF EntryAt(buf, i).name = formatted_name THEN i
    ELSE FindEntryAnyKind(buf, formatted_name, dir_only, i + 1)

(* The scan loops over slots first .. last: stop at name[0] == 0x00, skip   *)
(* name[0] == 0xE5.  The slot found, -1 after the stop, -2 when the range   *)
(* ends without either (evaluated by halves, the lower half first, to keep  *)
(* the evaluation shallow).                                                 *)
RECURSIVE FindEntryIn(_, _, _, _, _)
FindEntryIn(buf, formatted_name, dir_only, first, last) ==
    IF first > last THEN -2
    ELSE IF first = last
         THEN IF EntryAt(buf, first).name[1] = CH_NUL THEN -1
              ELSE IF EntryAt(buf, first).name[1] = CH_DELETED THEN -2
              ELSE IF (dir_only => (EntryAt(buf, first).attr \div ATTR_DIRECTORY) % 2 = 1)
                      /\ EntryAt(buf, first).name = formatted_name THEN first
              ELSE -2
    ELSE LET mid == (first + last) \div 2
             low == FindEntryIn(buf, formatted_name, dir_only, first, mid)
         IN  IF low # -2 THEN low
             ELSE FindEntryIn(buf, formatted_name, dir_only, mid + 1, last)

FindEntry(buf, formatted_name, dir_only, i) ==
    LET hit == FindEntryIn(buf, formatted_name, dir_only, i, ENTRY_COUNT - 1)
    IN  IF hit < 0 THEN -1 ELSE hit

(* The free-slot search returning the slot after the first free one.        *)
FindFreeEntryPastEnd(buf, i) ==
    LET free == {k \in i..(ENTRY_COUNT - 2) :
                    EntryAt(buf, k).name[1] = CH_NUL \/ EntryAt(buf, k).name[1] = CH_DELETED}
    IN  IF free = {} THEN -1
        ELSE (CHOOSE k \in free : \A j \in free : k <= j) + 1

RECURSIVE FindFreeEntryIn(_, _, _)
FindFreeEntryIn(buf, first, last) ==
    IF first > last THEN -1
    ELSE IF first = last
         THEN IF EntryAt(buf, first).name[1] = CH_NUL
                 \/ EntryAt(buf, first).name[1] = CH_DELETED THEN first ELSE -1
    ELSE LET mid == (first + last) \div 2
             low == FindFreeEntryIn(buf, first, mid)
         IN  IF low # -1 THEN low ELSE FindFreeEntryIn(buf, mid + 1, last)

FindFreeEntry(buf, i) == FindFreeEntryIn(buf, i, ENTRY_COUNT - 1)

-----------------------------------------------------------------------------
(* Filesystem operations.  Each returns its result code and what it left    *)
(* behind: the image (io) or the context (c).                               *)
(* mkdir writing the parent's entry before the child cluster and its FAT    *)
(* entry.                                                                   *)
fat32_mkdir_parent_first(io, c, name) ==
    IF Len(name) = 0 THEN [rc |-> -1, io |-> io]
    ELSE LET r == fat32_read_cluster(io, c, c.current_cluster)
             formatted_name == fat32_format_name(name)
             free_entry == FindFreeEntry(r.buf, 0)
             new_cluster == fat32_find_free_cluster(io, c)
             new_dir == NewDirBuffer(new_cluster, c.current_cluster)
             cluster == SetEntry(r.buf, free_entry,
                                 DirEntryOf(formatted_name, ATTR_DIRECTORY, new_cluster))
             w1 == fat32_write_cluster(io, c, c.current_cluster, cluster)
             w2 == fat32_write_cluster(w1.io, c, new_cluster, new_dir)
             w3 == fat32_set_fat_entry(w2.io, c, new_cluster, EOC)
         IN  IF r.rc # 0 THEN [rc |-> -1, io |-> io]
             ELSE IF FindEntry(r.buf, formatted_name, FALSE, 0) # -1
                  THEN [rc |-> -1, io |-> io]
             ELSE IF free_entry = -1 THEN [rc |-> -1, io |-> io]
             ELSE IF new_cluster = 0 THEN [rc |-> -1, io |-> io]
             ELSE IF w1.rc # 0 THEN [rc |-> -1, io |-> w1.io]
             ELSE IF w2.rc # 0 THEN [rc |-> -1, io |-> w2.io]
             ELSE IF w3.rc # 0 THEN [rc |-> -1, io |-> w3.io]
             ELSE [rc |-> 0, io |-> w3.io]

(* mkdir allocating and marking the new cluster before it looks for a free  *)
(* slot.                                                                    *)
fat32_mkdir_allocating_first(io, c, name) ==
    IF Len(name) = 0 THEN [rc |-> -1, io |-> io]
    ELSE LET r == fat32_read_cluster(io, c, c.current_cluster)
             formatted_name == fat32_format_name(name)
             free_entry == FindFreeEntry(r.buf, 0)
             new_cluster == fat32_find_free_cluster(io, c)
             new_dir == NewDirBuffer(new_cluster, c.current_cluster)
             w1 == fat32_write_cluster(io, c, new_cluster, new_dir)
             w2 == fat32_set_fat_entry(w1.io, c, new_cluster, EOC)
             cluster == SetEntry(r.buf, free_entry,
                                 DirEntryOf(formatted_name, ATTR_DIRECTORY, new_cluster))
             w3 == fat32_write_cluster(w2.io, c, c.current_cluster, cluster)
         IN  IF r.rc # 0 THEN [rc |-> -1, io |-> io]
             ELSE IF FindEntry(r.buf, formatted_name, FALSE, 0) # -1
                  THEN [rc |-> -1, io |-> io]
             ELSE IF new_cluster = 0 THEN [rc |-> -1, io |-> io]
             ELSE IF w1.rc # 0 THEN [rc |-> -1, io |-> w1.io]
             ELSE IF w2.rc # 0 THEN [rc |-> -1, io |-> w2.io]
             ELSE IF free_entry = -1 THEN [rc |-> -1, io |-> w2.io]
             ELSE IF w3.rc # 0 THEN [rc |-> -1, io |-> w3.io]
             ELSE [rc |-> 0, io |-> w3.io]

fat32_mkdir(io, c, name) ==
    IF Len(name) = 0 THEN [rc |-> -1, io |-> io]
    ELSE LET r == fat32_read_cluster(io, c, c.current_cluster)
             formatted_name == fat32_format_name(name)
             free_entry == FindFreeEntry(r.buf, 0)
             new_cluster == fat32_find_free_cluster(io, c)
             new_dir == NewDirBuffer(new_cluster, c.current_cluster)
             w1 == fat32_write_cluster(io, c, new_cluster, new_dir)
             w2 == fat32_set_fat_entry(w1.io, c, new_cluster, EOC)
             cluster == SetEntry(r.buf, free_entry,
                                 DirEntryOf(formatted_name, ATTR_DIRECTORY, new_cluster))
             w3 == fat32_write_cluster(w2.io, c, c.current_cluster, cluster)
         IN  IF r.rc # 0 THEN [rc |-> -1, io |-> io]
             ELSE IF FindEntry(r.buf, formatted_name, FALSE, 0) # -1
                  THEN [rc |-> -1, io |-> io]
             ELSE IF free_entry = -1 THEN [rc |-> -1, io |-> io]
             ELSE IF new_cluster = 0 THEN [rc |-> -1, io |-> io]
             ELSE IF w1.rc # 0 THEN [rc |-> -1, io |-> w1.io]
             ELSE IF w2.rc # 0 THEN [rc |-> -1, io |-> w2.io]
             ELSE IF w3.rc # 0 THEN [rc |-> -1, io |-> w3.io]
             ELSE [rc |-> 0, io |-> w3.io]

(* touch giving the new file the first free cluster, as mkdir does for a    *)
(* directory.                                                               *)
fat32_touch_allocating(io, c, name) ==
    IF Len(name) = 0 THEN [rc |-> -1, io |-> io]
    ELSE LET r == fat32_read_cluster(io, c, c.current_cluster)
             formatted_name == fat32_format_name(name)
             free_entry == FindFreeEntry(r.buf, 0)
             new_cluster == fat32_find_free_cluster(io, c)
             w1 == fat32_set_fat_entry(io, c, new_cluster, EOC)
             cluster == SetEntry(r.buf, free_entry,
                                 DirEntryOf(formatted_name, ATTR_ARCHIVE, new_cluster))
             w == fat32_write_cluster(w1.io, c, c.current_cluster, cluster)
         IN  IF r.rc # 0 THEN [rc |-> -1, io |-> io]
             ELSE IF FindEntry(r.buf, formatted_name, FALSE, 0) # -1
                  THEN [rc |-> -1, io |-> io]
             ELSE IF free_entry = -1 THEN [rc |-> -1, io |-> io]
             ELSE IF w1.rc # 0 THEN [rc |-> -1, io |-> w1.io]
             ELSE IF w.rc # 0 THEN [rc |-> -1, io |-> w.io]
             ELSE [rc |-> 0, io |-> w.io]

(* touch writing its entry before it looks for the name.                    *)
fat32_touch_writing_first(io, c, name) ==
    IF Len(name) = 0 THEN [rc |-> -1, io |-> io]
    ELSE LET r == fat32_read_cluster(io, c, c.current_cluster)
             formatted_name == fat32_format_name(name)
             free_entry == FindFreeEntry(r.buf, 0)
             cluster == SetEntry(r.buf, free_entry,
                                 DirEntryOf(formatted_name, ATTR_ARCHIVE, 0))
             w == fat32_write_cluster(io, c, c.current_cluster, cluster)
         IN  IF r.rc # 0 THEN [rc |-> -1, io |-> io]
             ELSE IF free_entry = -1 THEN [rc |-> -1, io |-> io]
             ELSE IF w.rc # 0 THEN [rc |-> -1, io |-> w.io]
             ELSE IF FindEntry(r.buf, formatted_name, FALSE, 0) # -1
                  THEN [rc |-> -1, io |-> w.io]
             ELSE [rc |-> 0, io |-> w.io]

fat32_touch(io, c, name) ==
    IF Len(name) = 0 THEN [rc |-> -1, io |-> io]
    ELSE LET r == fat32_read_cluster(io, c, c.current_cluster)
             formatted_name == fat32_format_name(name)
             free_entry == FindFreeEntry(r.buf, 0)
             cluster == SetEntry(r.buf, free_entry,
                                 DirEntryOf(formatted_name, ATTR_ARCHIVE, 0))
             w == fat32_write_cluster(io, c, c.current_cluster, cluster)
         IN  IF r.rc # 0 THEN [rc |-> -1, io |-> io]
             ELSE IF FindEntry(r.buf, formatted_name, FALSE, 0) # -1
                  THEN [rc |-> -1, io |-> io]
             ELSE IF free_entry = -1 THEN [rc |-> -1, io |-> io]
             ELSE IF w.rc # 0 THEN [rc |-> -1, io |-> w.io]
             ELSE [rc |-> 0, io |-> w.io]

RECURSIVE LastIndexOf(_, _, _)
LastIndexOf(s, ch, i) ==
    IF i < 1 THEN 0 ELSE IF s[i] = ch THEN i ELSE LastIndexOf(s, ch, i - 1)

(* The path left as it was when going up.                                   *)
PopPathKeep(path) == path

(* "Update current path - go up one level".                                 *)
PopPath(path) ==
    LET last_slash == LastIndexOf(path, CH_SLASH, Len(path))
    IN  IF last_slash > 1 THEN SubSeq(path, 1, last_slash - 1) ELSE <<CH_SLASH>>

(* cd "/" resetting the cluster but not the path string.                    *)
fat32_cd_root_keeps_path(io, c, path) ==
    IF Len(path) = 0 \/ path[1] # CH_SLASH THEN [rc |-> -1, c |-> c]
    ELSE IF path = <<CH_SLASH>>
    THEN [rc |-> 0, c |-> [c EXCEPT !.current_cluster = ROOT_CLUSTER]]
    ELSE LET dir_name == Tail(path)
             r == fat32_read_cluster(io, c, c.current_cluster)
             up == FindEntry(r.buf, DOTDOT_NAME, FALSE, 0)
             hit == FindEntry(r.buf, fat32_format_name(dir_name), TRUE, 0)
         IN  IF dir_name = <<CH_DOT>> THEN [rc |-> 0, c |-> c]
             ELSE IF dir_name = <<CH_DOT, CH_DOT>>
             THEN IF c.current_cluster = ROOT_CLUSTER THEN [rc |-> 0, c |-> c]
                  ELSE IF r.rc # 0 THEN [rc |-> -1, c |-> c]
                  ELSE IF up = -1 THEN [rc |-> -1, c |-> c]
                  ELSE [rc |-> 0,
                        c |-> [c EXCEPT
                                 !.current_cluster = fat32_get_cluster_from_entry(EntryAt(r.buf, up)),
                                 !.current_path = PopPath(c.current_path)]]
             ELSE IF IndexOf(dir_name, CH_SLASH, 1) # 0 THEN [rc |-> -1, c |-> c]
             ELSE IF r.rc # 0 THEN [rc |-> -1, c |-> c]
             ELSE IF hit = -1 THEN [rc |-> -1, c |-> c]
             ELSE [rc |-> 0,
                   c |-> [c EXCEPT
                            !.current_cluster = fat32_get_cluster_from_entry(EntryAt(r.buf, hit)),
                            !.current_path =
                                SubSeq(<<CH_SLASH>> \o dir_name, 1,
                                       Min(1 + Len(dir_name), PATH_MAX_LEN - 1))]]

(* cd without the test of the leading "/".                                  *)
fat32_cd_any_start(io, c, path) ==
    IF Len(path) = 0 THEN [rc |-> -1, c |-> c]
    ELSE IF path = <<CH_SLASH>>
    THEN [rc |-> 0, c |-> [c EXCEPT !.current_cluster = ROOT_CLUSTER,
                                    !.current_path = <<CH_SLASH>>]]
    ELSE LET dir_name == Tail(path)
             r == fat32_read_cluster(io, c, c.current_cluster)
             up == FindEntry(r.buf, DOTDOT_NAME, FALSE, 0)
             hit == FindEntry(r.buf, fat32_format_name(dir_name), TRUE, 0)
         IN  IF dir_name = <<CH_DOT>> THEN [rc |-> 0, c |-> c]
             ELSE IF dir_name = <<CH_DOT, CH_DOT>>
             THEN IF c.current_cluster = ROOT_CLUSTER THEN [rc |-> 0, c |-> c]
                  ELSE IF r.rc # 0 THEN [rc |-> -1, c |-> c]
                  ELSE IF up = -1 THEN [rc |-> -1, c |-> c]
                  ELSE [rc |-> 0,
                        c |-> [c EXCEPT
                                 !.current_cluster = fat32_get_cluster_from_entry(EntryAt(r.buf, up)),
                                 !.current_path = PopPath(c.current_path)]]
             ELSE IF IndexOf(dir_name, CH_SLASH, 1) # 0 THEN [rc |-> -1, c |-> c]
             ELSE IF r.rc # 0 THEN [rc |-> -1, c |-> c]
             ELSE IF hit = -1 THEN [rc |-> -1, c |-> c]
             ELSE [rc |-> 0,
                   c |-> [c EXCEPT
                            !.current_cluster = fat32_get_cluster_from_entry(EntryAt(r.buf, hit)),
                            !.current_path =
                                SubSeq(<<CH_SLASH>> \o dir_name, 1,
                                       Min(1 + Len(dir_name), PATH_MAX_LEN - 1))]]

fat32_cd(io, c, path) ==
    IF Len(path) = 0 \/ path[1] # CH_SLASH THEN [rc |-> -1, c |-> c]
    ELSE IF path = <<CH_SLASH>>
    THEN [rc |-> 0, c |-> [c EXCEPT !.current_cluster = ROOT_CLUSTER,
                                    !.current_path = <<CH_SLASH>>]]
    ELSE LET dir_name == Tail(path)
             r == fat32_read_cluster(io, c, c.current_cluster)
             up == FindEntry(r.buf, DOTDOT_NAME, FALSE, 0)
             hit == FindEntry(r.buf, fat32_format_name(dir_name), TRUE, 0)
         IN  IF dir_name = <<CH_DOT>> THEN [rc |-> 0, c |-> c]
             ELSE IF dir_name = <<CH_DOT, CH_DOT>>
             THEN IF c.current_cluster = ROOT_CLUSTER THEN [rc |-> 0, c |-> c]
                  ELSE IF r.rc # 0 THEN [rc |-> -1, c |-> c]
                  ELSE IF up = -1 THEN [rc |-> -1, c |-> c]
                  ELSE [rc |-> 0,
                        c |-> [c EXCEPT
                                 !.current_cluster = fat32_get_cluster_from_entry(EntryAt(r.buf, up)),
                                 !.current_path = PopPath(c.current_path)]]
             ELSE IF IndexOf(dir_name, CH_SLASH, 1) # 0 THEN [rc |-> -1, c |-> c]
             ELSE IF r.rc # 0 THEN [rc |-> -1, c |-> c]
             ELSE IF hit = -1 THEN [rc |-> -1, c |-> c]
             ELSE [rc |-> 0,
                   c |-> [c EXCEPT
                            !.current_cluster = fat32_get_cluster_from_entry(EntryAt(r.buf, hit)),
                            !.current_path =
                                SubSeq(<<CH_SLASH>> \o dir_name, 1,
                                       Min(1 + Len(dir_name), PATH_MAX_LEN - 1))]]

(* The text ls prints for one entry: the 8 name bytes without trailing      *)
(* spaces, then "." and the extension when name[8] is not a space.          *)
RECURSIVE TrimRight(_, _)
TrimRight(s, most) ==
    IF most > 0 /\ Len(s) > 0 /\ s[Len(s)] = CH_SPACE
    THEN TrimRight(SubSeq(s, 1, Len(s) - 1), most - 1) ELSE s

CString(s) ==
    LET z == IndexOf(s, CH_NUL, 1) IN IF z = 0 THEN s ELSE SubSeq(s, 1, z - 1)

ListedName(entry) ==
    LET base == CString(TrimRight(SubSeq(entry.name, 1, 8), 8))
    IN  IF entry.name[9] # CH_SPACE
        THEN TrimRight(base \o <<CH_DOT>> \o CString(SubSeq(entry.name, 9, 11)), 3)
        ELSE base

(* The lines printed for slots first .. last and whether the loop stopped   *)
(* there at name[0] == 0x00.                                                *)
RECURSIVE ListIn(_, _, _)
ListIn(buf, first, last) ==
    IF first > last THEN [lines |-> <<>>, stop |-> FALSE]
    ELSE IF first = last
         THEN IF EntryAt(buf, first).name[1] = CH_NUL THEN [lines |-> <<>>, stop |-> TRUE]
              ELSE IF EntryAt(buf, first).name[1] = CH_DELETED
                   THEN [lines |-> <<>>, stop |-> FALSE]
              ELSE [lines |-> <<ListedName(EntryAt(buf, first))>>, stop |-> FALSE]
    ELSE LET mid == (first + last) \div 2
             low == ListIn(buf, first, mid)
             high == ListIn(buf, mid + 1, last)
         IN  IF low.stop THEN low
             ELSE [lines |-> low.lines \o high.lines, stop |-> high.stop]

ListFrom(buf, i) == ListIn(buf, i, ENTRY_COUNT - 1).lines

(* The cluster ls lists; -1 when the root cannot be read.                   *)
LsTarget(io, c, path) ==
    IF Len(path) = 0 THEN c.current_cluster
    ELSE IF path = <<CH_SLASH>> THEN ROOT_CLUSTER
    ELSE IF path[1] = CH_SLASH
    THEN LET r == fat32_read_cluster(io, c, ROOT_CLUSTER)
             hit == FindEntry(r.buf, fat32_format_name(Tail(path)), TRUE, 0)
         IN  IF r.rc # 0 THEN -1
             ELSE IF hit = -1 THEN c.current_cluster
             ELSE fat32_get_cluster_from_entry(EntryAt(r.buf, hit))
    ELSE c.current_cluster

fat32_ls(io, c, path) ==
    LET target_cluster == LsTarget(io, c, path)
        r == fat32_read_cluster(io, c, target_cluster)
    IN  IF target_cluster = -1 THEN [rc |-> -1, lines |-> <<>>]
        ELSE IF r.rc # 0 THEN [rc |-> -1, lines |-> <<>>]
        ELSE [rc |-> 0, lines |-> ListFrom(r.buf, 0)]

-----------------------------------------------------------------------------
(* Session.                                                                 *)
ZeroCtx == [fat_start |-> 0, data_start |-> 0, fat_size |-> 0, total_clusters |-> 0,
            current_path |-> <<CH_SLASH>>, current_cluster |-> ROOT_CLUSTER]

EmptyDisk == [s \in {} |-> ZeroSector]

(* "Create 20MB file by writing zeros".                                     *)
CreateImage == [disk |-> EmptyDisk, size |-> TOTAL_SECTORS]

(* An init that creates a new image whatever it finds.                      *)
fat32_init_always_new(found) ==
    [disk |-> CreateImage.disk, size |-> CreateImage.size, c |-> ZeroCtx]

(* An init that keeps whatever file it can open.                            *)
fat32_init_keep_all(found) ==
    LET v == fat32_is_valid([disk |-> found.disk, size |-> found.size,
                             budget |-> NoFault], ZeroCtx)
    IN  IF found.exists
        THEN [disk |-> found.disk, size |-> found.size, c |-> v.c]
        ELSE [disk |-> CreateImage.disk, size |-> CreateImage.size, c |-> ZeroCtx]

(* found = [exists, disk, size]: the file at disk_path when init runs.      *)
fat32_init(found) ==
    LET v == fat32_is_valid([disk |-> found.disk, size |-> found.size,
                             budget |-> NoFault], ZeroCtx)
    IN  IF found.exists /\ v.rc = 0
        THEN [disk |-> found.disk, size |-> found.size, c |-> v.c]
        ELSE [disk |-> CreateImage.disk, size |-> CreateImage.size, c |-> ZeroCtx]

Missing == [exists |-> FALSE, disk |-> EmptyDisk, size |-> 0]

-----------------------------------------------------------------------------
(* Inputs.                                                                  *)
(* The arguments typed: the names "a" and "b" and paths made of them.       *)
NAME_A == <<97>>
NAME_B == <<98>>
Names == {NAME_A, NAME_B}
CdPaths == {<<CH_SLASH>>, <<CH_SLASH, CH_DOT>>, <<CH_SLASH, CH_DOT, CH_DOT>>,
            <<CH_SLASH>> \o NAME_A, <<CH_SLASH>> \o NAME_B, NAME_A,
            <<CH_SLASH>> \o NAME_A \o <<CH_SLASH>> \o NAME_B}
LsPaths == {<<>>, <<CH_SLASH>>, <<CH_SLASH>> \o NAME_A, NAME_A}

(* The model follows an image while its directories stay within clusters   *)
(* 2..MaxCluster.                                                           *)
WithinBounds(d) ==
    \A s \in DOMAIN d :
        s < RESERVED_SECTORS + FAT_COUNT * FAT_SIZE_32
                + (MaxCluster - 1) * SECTORS_PER_CLUSTER

-----------------------------------------------------------------------------
(* process_command: the value returned, the message and the listing        *)
(* printed, and the image and context left behind.  arg is arg1, empty     *)
(* when the line has no argument.                                           *)
Reply(r, msg, lines, io, c) ==
    [ret |-> r, msg |-> msg, lines |-> lines, io |-> io, c |-> c]

process_command(io, c, cmd, arg) ==
    LET v == fat32_is_valid(io, c)
        unknown == Reply(-1, "Unknown disk format", <<>>, io, c)
    IN  CASE cmd = "format" ->
               LET r == fat32_format(io, c)
               IN  Reply(0, IF r.rc = 0 THEN "Ok" ELSE "Format failed", <<>>, r.io, r.c)
          [] cmd = "ls" ->
               IF v.rc # 0 THEN unknown
               ELSE LET r == fat32_ls(io, v.c, arg)
                    IN  Reply(0, IF r.rc = 0 THEN "" ELSE "ls failed", r.lines, io, v.c)
          [] cmd = "mkdir" ->
               IF v.rc # 0 THEN unknown
               ELSE IF Len(arg) = 0 THEN Reply(0, "Usage: mkdir <name>", <<>>, io, v.c)
               ELSE LET r == fat32_mkdir(io, v.c, arg)
                    IN  Reply(0, IF r.rc = 0 THEN "Ok" ELSE "mkdir failed", <<>>, r.io, v.c)
          [] cmd = "touch" ->
               IF v.rc # 0 THEN unknown
               ELSE IF Len(arg) = 0 THEN Reply(0, "Usage: touch <name>", <<>>, io, v.c)
               ELSE LET r == fat32_touch(io, v.c, arg)
                    IN  Reply(0, IF r.rc = 0 THEN "Ok" ELSE "touch failed", <<>>, r.io, v.c)
          [] cmd = "cd" ->
               IF v.rc # 0 THEN unknown
               ELSE IF Len(arg) = 0 THEN Reply(0, "Usage: cd <path>", <<>>, io, v.c)
               ELSE LET r == fat32_cd(io, v.c, arg)
                    IN  Reply(0, IF r.rc = 0 THEN "" ELSE "cd failed", <<>>, io, r.c)
          [] cmd \in {"exit", "quit"} -> Reply(-1, "", <<>>, io, c)
          [] OTHER -> Reply(0, "Unknown command", <<>>, io, c)

Io == [disk |-> disk, size |-> disk_size, budget |-> NoFault]

(* One command line handed to process_command by main's loop or by the     *)
(* test driver, which goes on after a return of -1.                         *)
Command(cmd, arg) ==
    LET r == process_command(Io, ctx, cmd, arg)
    IN  /\ WithinBounds(r.io.disk)
        /\ disk' = r.io.disk
        /\ disk_size' = r.io.size
        /\ ctx' = r.c
        /\ ret' = r.ret

Format == Command("format", <<>>)
Ls == \E path \in LsPaths : Command("ls", path)
Mkdir == \E name \in Names \cup {<<>>} : Command("mkdir", name)
Touch == \E name \in Names \cup {<<>>} : Command("touch", name)
Cd == \E path \in CdPaths \cup {<<>>} : Command("cd", path)

(* fat32_cleanup, then fat32_init on the same path in a new session.        *)
Reopen ==
    LET n == fat32_init([exists |-> TRUE, disk |-> disk, size |-> disk_size])
    IN  /\ disk' = n.disk
        /\ disk_size' = n.size
        /\ ctx' = n.c
        /\ ret' = 0

InitFrom(found) ==
    LET n == fat32_init(found)
    IN  /\ disk = n.disk
        /\ disk_size = n.size
        /\ ctx = n.c
        /\ ret = 0

Init == InitFrom(Missing)

Next == Format \/ Ls \/ Mkdir \/ Touch \/ Cd \/ Reopen

Spec == Init /\ [][Next]_vars

-----------------------------------------------------------------------------
(* Observations of the image.                                               *)
FAT_START == RESERVED_SECTORS
DATA_START == RESERVED_SECTORS + FAT_COUNT * FAT_SIZE_32

(* The 32-bit value stored in the slot of `cluster` in FAT copy `copy`.     *)
FatRaw(d, copy, cluster) ==
    AsFat(Get(d, FAT_START + copy * FAT_SIZE_32 + (cluster * 4) \div SECTOR_SIZE))
        [((cluster * 4) % SECTOR_SIZE) \div 4]

Valid == fat32_is_valid(Io, ctx).rc = 0

-----------------------------------------------------------------------------
(* C1: the two FAT copies are equal sector by sector in every state, and    *)
(* every fat32_set_fat_entry that succeeds leaves the low 28 bits of the    *)
(* value in the slot of the cluster in both copies.                         *)
C1_FatCopiesEqual ==
    /\ \A k \in 0..(FAT_SIZE_32 - 1) :
           Get(disk, FAT_START + k) = Get(disk, FAT_START + FAT_SIZE_32 + k)
    /\ \A cluster \in 0..(MaxCluster + 1) : \A value \in {0, 5, EOC, EOC + 1 + 7} :
           LET w == fat32_set_fat_entry(Io, ctx, cluster, value)
           IN  w.rc = 0 =>
                   /\ FatRaw(w.io.disk, 0, cluster) % FAT_MASK = value % FAT_MASK
                   /\ FatRaw(w.io.disk, 1, cluster) % FAT_MASK = value % FAT_MASK

(* A directory has been created: entry 3 is end-of-chain in both copies.    *)
C1_Witness ==
    /\ FatRaw(disk, 0, 3) = EOC
    /\ FatRaw(disk, 1, 3) = EOC

-----------------------------------------------------------------------------
(* The directory tree as the scans see it.                                  *)
DataClusters == 2..MaxCluster

DirBuf(n) == fat32_read_cluster(Io, ctx, n).buf

IsDir(entry) == (entry.attr \div ATTR_DIRECTORY) % 2 = 1

(* The slot of the first entry with name[0] == 0x00 at or after slot i.     *)
RECURSIVE FirstNulIn(_, _, _)
FirstNulIn(buf, first, last) ==
    IF first > last THEN ENTRY_COUNT
    ELSE IF first = last
         THEN IF EntryAt(buf, first).name[1] = CH_NUL THEN first ELSE ENTRY_COUNT
    ELSE LET mid == (first + last) \div 2
             low == FirstNulIn(buf, first, mid)
         IN  IF low # ENTRY_COUNT THEN low ELSE FirstNulIn(buf, mid + 1, last)

FirstNul(buf, i) == FirstNulIn(buf, i, ENTRY_COUNT - 1)

(* The slots a scan visits and does not skip.                               *)
LiveSlots(buf) ==
    {k \in 0..(FirstNul(buf, 0) - 1) : EntryAt(buf, k).name[1] # CH_DELETED}

(* The subdirectories entered by name from the directory held in buf.       *)
ChildSlots(buf) ==
    {k \in LiveSlots(buf) :
        /\ IsDir(EntryAt(buf, k))
        /\ EntryAt(buf, k).name \notin {DOT_NAME, DOTDOT_NAME}}

ChildrenIn(buf) ==
    {fat32_get_cluster_from_entry(EntryAt(buf, k)) : k \in ChildSlots(buf)}

Children(n) == ChildrenIn(DirBuf(n))

RECURSIVE ReachFrom(_, _)
ReachFrom(seen, frontier) ==
    IF frontier = {} THEN seen
    ELSE ReachFrom(seen \cup frontier,
                   UNION {Children(n) : n \in frontier} \ (seen \cup frontier))

(* The clusters of the directories reachable from the root.                 *)
Tree == ReachFrom({}, {ROOT_CLUSTER})

EndOfChain(cluster) ==
    /\ FatRaw(disk, 0, cluster) % FAT_MASK = EOC
    /\ FatRaw(disk, 1, cluster) % FAT_MASK = EOC

-----------------------------------------------------------------------------
(* Sessions that start on a file already present at the image path.         *)
BootOnlyFile ==
    [exists |-> TRUE, disk |-> Put(EmptyDisk, 0, BootSector(FormatBoot)), size |-> 1]

LongFile ==
    [exists |-> TRUE, disk |-> Put(EmptyDisk, 0, BootSector(FormatBoot)),
     size |-> TOTAL_SECTORS + SECTORS_PER_CLUSTER]

BlankFile == [exists |-> TRUE, disk |-> EmptyDisk, size |-> 0]

FoundFiles == {Missing, BlankFile, BootOnlyFile, LongFile}

InitFound == \E found \in FoundFiles : InitFrom(found)

SpecFound == InitFound /\ [][Next]_vars

-----------------------------------------------------------------------------
(* C2: once fat32_init has succeeded the image is 40,960 sectors long and   *)
(* stays so, and no sector at index 40960 or above is ever written.         *)
C2_ImageSize ==
    /\ disk_size = TOTAL_SECTORS
    /\ \A s \in DOMAIN disk : s < TOTAL_SECTORS

(* C3: on a formatted image the root cluster, every directory reachable     *)
(* from the root, and every cluster a live DIRECTORY entry of such a        *)
(* directory points to (but for the root's "..") is end-of-chain in both    *)
(* FAT copies.                                                              *)
C3_DirClustersEndOfChain ==
    Valid =>
        /\ EndOfChain(ROOT_CLUSTER)
        /\ \A n \in Tree :
               LET buf == DirBuf(n)
               IN  /\ EndOfChain(n)
                   /\ \A k \in LiveSlots(buf) :
                          (/\ IsDir(EntryAt(buf, k))
                           /\ ~(n = ROOT_CLUSTER /\ EntryAt(buf, k).name = DOTDOT_NAME))
                          => EndOfChain(fat32_get_cluster_from_entry(EntryAt(buf, k)))

(* The root holds a subdirectory.                                           *)
C3_Witness == Valid /\ Tree # {ROOT_CLUSTER}

(* C4: no directory cluster holds two live entries with the same 11-byte    *)
(* name, whether made by mkdir or by touch.                                 *)
C4_NamesUnique ==
    \A n \in DataClusters :
        LET buf == DirBuf(n)
        IN  \A j, k \in LiveSlots(buf) :
                EntryAt(buf, j).name = EntryAt(buf, k).name => j = k

(* One directory holds a subdirectory and a file next to "." and "..".      *)
C4_Witness ==
    \E n \in DataClusters :
        LET buf == DirBuf(n)
        IN  /\ Cardinality(LiveSlots(buf)) >= 4
            /\ \E j, k \in LiveSlots(buf) :
                   IsDir(EntryAt(buf, j)) /\ EntryAt(buf, k).attr = ATTR_ARCHIVE

(* C5: in every directory cluster all slots after the first slot with       *)
(* name[0] = 0x00 are zero, and the slot a successful mkdir or touch fills  *)
(* lies before that slot.                                                   *)
C5_LivePrefix ==
    /\ \A n \in DataClusters :
           LET buf == DirBuf(n)
           IN  \A j \in (FirstNul(buf, 0) + 1)..(ENTRY_COUNT - 1) :
                   EntryAt(buf, j) = ZeroEntry
    /\ Valid =>
           \A name \in Names : \A dir \in BOOLEAN :
               LET r == IF dir THEN fat32_mkdir(Io, ctx, name) ELSE fat32_touch(Io, ctx, name)
                   slot == FindFreeEntry(DirBuf(ctx.current_cluster), 0)
                   post == fat32_read_cluster(r.io, ctx, ctx.current_cluster).buf
               IN  r.rc = 0 =>
                       /\ EntryAt(post, slot).name = fat32_format_name(name)
                       /\ slot < FirstNul(post, 0)

(* A directory holds an entry beyond "." and "..".                          *)
C5_Witness ==
    \E n \in DataClusters : FirstNul(DirBuf(n), 0) >= 3

(* Slots 0 and 1 of cluster n are "." -> n and ".." -> parent.              *)
DotEntries(n, parent) ==
    LET buf == DirBuf(n)
    IN  /\ EntryAt(buf, 0).name = DOT_NAME
        /\ IsDir(EntryAt(buf, 0))
        /\ fat32_get_cluster_from_entry(EntryAt(buf, 0)) = n
        /\ EntryAt(buf, 1).name = DOTDOT_NAME
        /\ IsDir(EntryAt(buf, 1))
        /\ fat32_get_cluster_from_entry(EntryAt(buf, 1)) = parent

UsedFar(io) ==
    [io EXCEPT !.disk =
        Put(Put(@, FAT_START + 1, FatSector([ZeroFat EXCEPT ![0] = EOC])),
            FAT_START + FAT_SIZE_32 + 1, FatSector([ZeroFat EXCEPT ![0] = EOC]))]

(* C7: whatever the image held, after a successful format a listing of the  *)
(* root prints exactly "." and then "..".                                   *)
C7_FormatListsDots ==
    LET r == process_command(Io, ctx, "format", <<>>)
        l == process_command(r.io, r.c, "ls", <<CH_SLASH>>)
    IN  r.msg = "Ok" =>
            /\ l.ret = 0
            /\ l.msg = ""
            /\ l.lines = <<(<<CH_DOT>>), <<CH_DOT, CH_DOT>>>>

(* The root lists "." and ".." only while cluster 3 still holds the         *)
(* directory made before the format.                                        *)
C7_Witness ==
    /\ Valid
    /\ fat32_ls(Io, ctx, <<CH_SLASH>>).lines = <<(<<CH_DOT>>), <<CH_DOT, CH_DOT>>>>
    /\ EntryAt(DirBuf(3), 0).name = DOT_NAME

(* C8: after a successful format both FAT copies hold 0x0FFFFFF8 in entry   *)
(* 0, 0x0FFFFFFF in entries 1 and 2 and zero in every other entry,          *)
(* fat32_is_valid succeeds, and the geometry is fat_start 32, data_start    *)
(* 544, total_clusters 5052.                                                *)
C8_FormatResult ==
    \A prior \in {Io, UsedFar(Io)} :
        LET r == process_command(prior, ctx, "format", <<>>)
        IN  r.msg = "Ok" =>
                /\ \A copy \in 0..(FAT_COUNT - 1) :
                       /\ FatRaw(r.io.disk, copy, 0) = MEDIA_ENTRY
                       /\ FatRaw(r.io.disk, copy, 1) = EOC
                       /\ FatRaw(r.io.disk, copy, 2) = EOC
                       /\ \A cluster \in 3..(FAT_PER_SECTOR - 1) :
                              FatRaw(r.io.disk, copy, cluster) = 0
                       /\ \A k \in 1..(FAT_SIZE_32 - 1) :
                              Get(r.io.disk, FAT_START + copy * FAT_SIZE_32 + k) = ZeroSector
                /\ fat32_get_fat_entry(r.io, r.c, 0) = MEDIA_ENTRY
                /\ fat32_get_fat_entry(r.io, r.c, ROOT_CLUSTER) = EOC
                /\ fat32_is_valid(r.io, r.c).rc = 0
                /\ fat32_is_valid(r.io, r.c).c = r.c
                /\ r.c.fat_start = 32
                /\ r.c.data_start = 544
                /\ r.c.total_clusters = 5052

(* A formatted image on which entry 3 is free again although cluster 3 was  *)
(* a directory: a format has run over a used image.                         *)
C8_Witness ==
    /\ Valid
    /\ FatRaw(disk, 0, 3) = 0
    /\ FatRaw(disk, 1, 3) = 0
    /\ Get(disk, DATA_START + SECTORS_PER_CLUSTER) # ZeroSector
    /\ ctx.total_clusters = 5052

(* The command lines that need a valid image.                               *)
Guarded ==
    ({"ls"} \X LsPaths) \cup ({"mkdir", "touch"} \X (Names \cup {<<>>}))
        \cup ({"cd"} \X (CdPaths \cup {<<>>}))

(* Sector 0 of an image carries the signature 0xAA55 and an fs_type that    *)
(* starts with "FAT32".                                                     *)
BootValid(d, size) ==
    /\ size > 0
    /\ AsBoot(Get(d, 0)).signature = SIGNATURE
    /\ IsPrefix(FS_PREFIX, AsBoot(Get(d, 0)).fs_type)

(* C9: while sector 0 is not a valid boot sector, ls, mkdir, touch and cd   *)
(* print "Unknown disk format", return -1 and leave the image and the       *)
(* context as they were; exit, quit and unknown commands leave the image    *)
(* alone, a new session finds it invalid again, and format makes it valid.  *)
C9_InvalidImage ==
    ~BootValid(disk, disk_size) =>
        /\ \A line \in Guarded :
               LET r == process_command(Io, ctx, line[1], line[2])
               IN  /\ r.ret = -1
                   /\ r.msg = "Unknown disk format"
                   /\ r.lines = <<>>
                   /\ r.io = Io
                   /\ r.c = ctx
        /\ \A cmd \in {"exit", "quit", "help"} :
               process_command(Io, ctx, cmd, <<>>).io = Io
        /\ LET n == fat32_init([exists |-> TRUE, disk |-> disk, size |-> disk_size])
           IN  ~BootValid(n.disk, n.size)
        /\ LET r == process_command(Io, ctx, "format", <<>>)
           IN  r.msg = "Ok" => BootValid(r.io.disk, r.io.size)

(* A command has been refused on an image that is still invalid.            *)
C9_Witness == ~BootValid(disk, disk_size) /\ ret = -1

(* The lowest-numbered cluster whose FAT entry is zero.                     *)
LowestFree ==
    LET free == {cluster \in 2..(MaxCluster + 1) : FatRaw(disk, 0, cluster) % FAT_MASK = 0}
    IN  CHOOSE cluster \in free : \A other \in free : cluster <= other

(* The sectors of a cluster and the FAT sectors holding its entry.          *)
SectorsOf(cluster) ==
    {DATA_START + (cluster - 2) * SECTORS_PER_CLUSTER + i : i \in 0..(SECTORS_PER_CLUSTER - 1)}

FatSectorsOf(cluster) ==
    {FAT_START + copy * FAT_SIZE_32 + (cluster * 4) \div SECTOR_SIZE : copy \in 0..(FAT_COUNT - 1)}

(* C10: a successful mkdir in directory D turns the lowest free cluster n   *)
(* into a directory holding "." -> n and ".." -> D and nothing else, sets   *)
(* FAT entry n to 0x0FFFFFFF in both copies, writes (name, DIRECTORY, n)    *)
(* into the first free slot of D, and changes nothing else.                 *)
C10_MkdirThreePlaces ==
    Valid =>
        \A name \in Names :
            LET r == fat32_mkdir(Io, ctx, name)
                D == ctx.current_cluster
                n == LowestFree
                pre == DirBuf(D)
                slot == FindFreeEntry(pre, 0)
                post == fat32_read_cluster(r.io, ctx, D).buf
            IN  r.rc = 0 =>
                    /\ fat32_read_cluster(r.io, ctx, n).buf = NewDirBuffer(n, D)
                    /\ \A copy \in 0..(FAT_COUNT - 1) :
                           /\ FatRaw(r.io.disk, copy, n) = EOC
                           /\ \A cluster \in 0..(FAT_PER_SECTOR - 1) :
                                  cluster # n =>
                                      FatRaw(r.io.disk, copy, cluster) = FatRaw(disk, copy, cluster)
                    /\ EntryAt(post, slot) =
                           DirEntryOf(fat32_format_name(name), ATTR_DIRECTORY, n)
                    /\ \A k \in 0..(ENTRY_COUNT - 1) :
                           k # slot => EntryAt(post, k) = EntryAt(pre, k)
                    /\ \A s \in (DOMAIN disk \cup DOMAIN r.io.disk)
                                   \ (SectorsOf(n) \cup SectorsOf(D) \cup FatSectorsOf(n)) :
                           Get(r.io.disk, s) = Get(disk, s)
                    /\ r.io.size = disk_size

-----------------------------------------------------------------------------
(* Sessions in which the device stops accepting writes in the middle of a   *)
(* mkdir: the command fails after `done` of its sector writes.              *)
MkdirWrites == 2 * SECTORS_PER_CLUSTER + FAT_COUNT

MkdirStopped ==
    \E name \in Names : \E done \in 0..(MkdirWrites - 1) :
        LET r == process_command([Io EXCEPT !.budget = done], ctx, "mkdir", name)
        IN  /\ r.msg = "mkdir failed"
            /\ WithinBounds(r.io.disk)
            /\ disk' = r.io.disk
            /\ disk_size' = r.io.size
            /\ ctx' = r.c
            /\ ret' = r.ret

NextIO == Next \/ MkdirStopped

SpecIO == Init /\ [][NextIO]_vars

(* Cluster n of image d starts with "." -> n and "..", both directories,    *)
(* and is end-of-chain in both FAT copies of d.                             *)
Committed(d, size, c, n) ==
    LET child == fat32_read_cluster([disk |-> d, size |-> size, budget |-> NoFault], c, n).buf
    IN  /\ EntryAt(child, 0).name = DOT_NAME
        /\ IsDir(EntryAt(child, 0))
        /\ fat32_get_cluster_from_entry(EntryAt(child, 0)) = n
        /\ EntryAt(child, 1).name = DOTDOT_NAME
        /\ IsDir(EntryAt(child, 1))
        /\ FatRaw(d, 0, n) % FAT_MASK = EOC
        /\ FatRaw(d, 1, n) % FAT_MASK = EOC

(* C11: after any number of the sector writes of an mkdir, if the parent    *)
(* directory on disk holds the new entry then the cluster it points to      *)
(* holds "." and ".." and is end-of-chain in both FAT copies; and in        *)
(* sessions with interrupted mkdirs no entry reachable from the root points *)
(* to an uninitialized or free cluster.                                     *)
C11_ChildBeforeParent ==
    Valid =>
        /\ \A name \in Names : \A done \in 0..MkdirWrites :
               LET r == fat32_mkdir([Io EXCEPT !.budget = done], ctx, name)
                   pre == DirBuf(ctx.current_cluster)
                   slot == FindFreeEntry(pre, 0)
                   post == fat32_read_cluster(r.io, ctx, ctx.current_cluster).buf
               IN  (/\ slot # -1
                    /\ EntryAt(post, slot) # EntryAt(pre, slot)
                    /\ EntryAt(post, slot).name = fat32_format_name(name))
                   => Committed(r.io.disk, r.io.size, ctx,
                                fat32_get_cluster_from_entry(EntryAt(post, slot)))
        /\ \A p \in Tree : \A n \in Children(p) : Committed(disk, disk_size, ctx, n)

(* An mkdir was stopped between its two FAT writes.                         *)
C11_Witness ==
    /\ Valid
    /\ \E n \in DataClusters :
           /\ FatRaw(disk, 0, n) = EOC
           /\ FatRaw(disk, 1, n) = 0
           /\ EntryAt(DirBuf(n), 0).name = DOT_NAME

-----------------------------------------------------------------------------
(* The clusters of image d whose FAT entry is zero, among those the model   *)
(* follows and the one after them.                                          *)
FreeClusters(d) ==
    {cluster \in 2..(MaxCluster + 1) : FatRaw(d, 0, cluster) % FAT_MASK = 0}

(* C12: a successful touch writes (normalized name, ARCHIVE, size 0,        *)
(* cluster 0) into the first free slot of the current directory and leaves  *)
(* every other slot, every other sector of the image (both FAT copies       *)
(* included) and the number of free clusters as they were.                  *)
C12_TouchOneEntry ==
    Valid =>
        \A name \in Names :
            LET r == fat32_touch(Io, ctx, name)
                D == ctx.current_cluster
                pre == DirBuf(D)
                slot == FindFreeEntry(pre, 0)
                post == fat32_read_cluster(r.io, ctx, D).buf
            IN  r.rc = 0 =>
                    /\ EntryAt(pre, slot).name[1] \in {CH_NUL, CH_DELETED}
                    /\ \A j \in 0..(slot - 1) :
                           EntryAt(pre, j).name[1] \notin {CH_NUL, CH_DELETED}
                    /\ EntryAt(post, slot) =
                           [name |-> fat32_format_name(name), attr |-> ATTR_ARCHIVE,
                            cluster_high |-> 0, cluster_low |-> 0, file_size |-> 0]
                    /\ \A k \in 0..(ENTRY_COUNT - 1) :
                           k # slot => EntryAt(post, k) = EntryAt(pre, k)
                    /\ \A s \in (DOMAIN disk \cup DOMAIN r.io.disk) \ SectorsOf(D) :
                           Get(r.io.disk, s) = Get(disk, s)
                    /\ r.io.size = disk_size
                    /\ Cardinality(FreeClusters(r.io.disk)) = Cardinality(FreeClusters(disk))

(* A file entry stands in the cursor's directory, which is not the root.    *)
C12_Witness ==
    /\ Valid
    /\ ctx.current_cluster # ROOT_CLUSTER
    /\ \E k \in LiveSlots(DirBuf(ctx.current_cluster)) :
           /\ EntryAt(DirBuf(ctx.current_cluster), k).attr = ATTR_ARCHIVE
           /\ fat32_get_cluster_from_entry(EntryAt(DirBuf(ctx.current_cluster), k)) = 0

-----------------------------------------------------------------------------
(* A name whose first byte is 0xE5, and the names typed in the checks of    *)
(* name collisions: each name also with a trailing ".", which normalizes    *)
(* to the same 11 bytes.                                                    *)
DELETED_NAME == <<CH_DELETED, 97>>

WithDot(names) == names \cup {name \o <<CH_DOT>> : name \in names}

(* The second of two creations of one normalized name in one directory      *)
(* fails and changes neither the image nor the context.                     *)
SecondFails(names) ==
    \A n \in names : \A first \in {"mkdir", "touch"} :
        LET p1 == process_command(Io, ctx, first, n)
        IN  p1.msg = "Ok" =>
                \A m \in WithDot(names) : \A second \in {"mkdir", "touch"} :
                    fat32_format_name(m) = fat32_format_name(n) =>
                        LET p2 == process_command(p1.io, p1.c, second, m)
                        IN  /\ p2.msg \in {"mkdir failed", "touch failed"}
                            /\ p2.io = p1.io
                            /\ p2.c = p1.c

(* A name that normalizes to the name of a live entry of the cursor's       *)
(* directory is refused, however long ago the entry was made.               *)
LiveNameRefused(names) ==
    \A m \in WithDot(names) : \A cmd \in {"mkdir", "touch"} :
        (\E k \in LiveSlots(DirBuf(ctx.current_cluster)) :
             EntryAt(DirBuf(ctx.current_cluster), k).name = fat32_format_name(m))
        => LET p == process_command(Io, ctx, cmd, m)
           IN  /\ p.msg \in {"mkdir failed", "touch failed"}
               /\ p.io = Io
               /\ p.c = ctx

(* C13: after a successful mkdir or touch of a name in a directory, every   *)
(* later mkdir or touch there of a name with the same normalized form       *)
(* fails and changes neither image nor cursor, whatever bytes the name      *)
(* contains.                                                                *)
C13_NameExists ==
    Valid => SecondFails(Names \cup {DELETED_NAME}) /\ LiveNameRefused(Names)

-----------------------------------------------------------------------------
(* The live DIRECTORY entries of the cursor's directory whose 11 bytes are  *)
(* the normalized form of name.                                             *)
DirHits(name) ==
    {k \in LiveSlots(DirBuf(ctx.current_cluster)) :
        /\ IsDir(EntryAt(DirBuf(ctx.current_cluster), k))
        /\ EntryAt(DirBuf(ctx.current_cluster), k).name = fat32_format_name(name)}

Lowest(slots) == CHOOSE k \in slots : \A j \in slots : k <= j

(* C14: on a valid image cd "/" succeeds from every cursor and leaves the   *)
(* cursor at cluster 2 with path "/", the cursor of a fresh session.        *)
C14_CdRoot ==
    Valid =>
        LET p == process_command(Io, ctx, "cd", <<CH_SLASH>>)
        IN  /\ p.ret = 0
            /\ p.msg = ""
            /\ p.io = Io
            /\ p.c.current_cluster = ROOT_CLUSTER
            /\ p.c.current_path = <<CH_SLASH>>
            /\ p.c.current_cluster = ZeroCtx.current_cluster
            /\ p.c.current_path = ZeroCtx.current_path

(* The cursor is back at the root while a subdirectory holds a file.        *)
C14_Witness ==
    /\ Valid
    /\ ctx.current_cluster = ROOT_CLUSTER
    /\ ctx.current_path = <<CH_SLASH>>
    /\ \E n \in Children(ROOT_CLUSTER) :
           EndOfChain(n) /\ EntryAt(DirBuf(n), 2).attr = ATTR_ARCHIVE

(* C15: cd "/<name>" succeeds exactly when the cursor's directory holds a   *)
(* live DIRECTORY entry with the normalized name; then the cursor cluster   *)
(* is that entry's pointer and the path is "/<name>"; otherwise it fails    *)
(* and the cursor stays.                                                    *)
C15_CdName ==
    Valid =>
        \A name \in Names :
            LET p == process_command(Io, ctx, "cd", <<CH_SLASH>> \o name)
                hits == DirHits(name)
            IN  /\ p.io = Io
                /\ IF hits # {}
                   THEN /\ p.msg = ""
                        /\ p.c.current_cluster =
                               fat32_get_cluster_from_entry(
                                   EntryAt(DirBuf(ctx.current_cluster), Lowest(hits)))
                        /\ p.c.current_path = <<CH_SLASH>> \o name
                   ELSE /\ p.msg = "cd failed"
                        /\ p.c = ctx

(* The cursor is inside subdirectory "a" of the root, whose name is not     *)
(* found in the cursor's own directory.                                     *)
C15_Witness ==
    /\ Valid
    /\ ctx.current_cluster \in Children(ROOT_CLUSTER)
    /\ ctx.current_path = <<CH_SLASH>> \o NAME_A
    /\ DirHits(NAME_A) = {}

(* The path string without its last component, "/" when one remains.        *)
Shortened(path) ==
    LET slashes == {i \in 2..Len(path) : path[i] = CH_SLASH}
    IN  IF slashes = {} THEN <<CH_SLASH>>
        ELSE SubSeq(path, 1, (CHOOSE i \in slashes : \A j \in slashes : j <= i) - 1)

(* C16: cd "/.." changes nothing when the cursor cluster is 2; otherwise    *)
(* the cursor cluster becomes the pointer of the ".." entry of the current  *)
(* directory and the path loses its last component; cd "/." never changes   *)
(* the cursor.                                                              *)
C16_CdDots ==
    Valid =>
        LET up == process_command(Io, ctx, "cd", <<CH_SLASH, CH_DOT, CH_DOT>>)
            stay == process_command(Io, ctx, "cd", <<CH_SLASH, CH_DOT>>)
            buf == DirBuf(ctx.current_cluster)
            dotdot == {k \in LiveSlots(buf) : EntryAt(buf, k).name = DOTDOT_NAME}
        IN  /\ stay.msg = ""
            /\ stay.c = ctx
            /\ stay.io = Io
            /\ up.io = Io
            /\ up.msg = ""
            /\ IF ctx.current_cluster = ROOT_CLUSTER
               THEN up.c = ctx
               ELSE /\ dotdot # {}
                    /\ up.c.current_cluster =
                           fat32_get_cluster_from_entry(EntryAt(buf, Lowest(dotdot)))
                    /\ up.c.current_path = Shortened(ctx.current_path)

(* The cursor is back at the root after a file was made in a directory      *)
(* whose cluster a format had freed.                                        *)
C16_Witness ==
    /\ Valid
    /\ ctx.current_cluster = ROOT_CLUSTER
    /\ ctx.current_path = <<CH_SLASH>>
    /\ FatRaw(disk, 0, 3) = 0
    /\ EntryAt(DirBuf(3), 2).attr = ATTR_ARCHIVE

(* Paths cd refuses: not starting with "/", or with a second "/".           *)
RelativePaths == {NAME_A, NAME_A \o NAME_A, <<CH_DOT>>, <<CH_DOT, CH_DOT>>,
                  NAME_A \o <<CH_SLASH>> \o NAME_B}
DeepPaths == {<<CH_SLASH>> \o NAME_A \o <<CH_SLASH>> \o NAME_B,
              <<CH_SLASH>> \o NAME_A \o <<CH_SLASH>>,
              <<CH_SLASH, CH_SLASH>>,
              <<CH_SLASH, CH_DOT, CH_DOT, CH_SLASH>> \o NAME_A,
              <<CH_SLASH, CH_DOT, CH_SLASH, CH_DOT>>}

(* C17: cd fails and leaves cursor cluster and path as they were for a      *)
(* path that does not begin with "/", for a path with a "/" after the       *)
(* leading one, and for a single name that matches no DIRECTORY entry of    *)
(* the current directory.                                                   *)
C17_CdFails ==
    Valid =>
        \A path \in RelativePaths \cup DeepPaths
                      \cup {<<CH_SLASH>> \o name : name \in {n \in Names : DirHits(n) = {}}} :
            LET p == process_command(Io, ctx, "cd", path)
            IN  /\ p.msg = "cd failed"
                /\ p.ret = 0
                /\ p.io = Io
                /\ p.c = ctx

(* The cursor's directory holds a file "a" and a directory "b": "/a" is     *)
(* refused there although the name exists.                                  *)
C17_Witness ==
    /\ Valid
    /\ DirHits(NAME_A) = {}
    /\ DirHits(NAME_B) # {}
    /\ \E k \in LiveSlots(DirBuf(ctx.current_cluster)) :
           EntryAt(DirBuf(ctx.current_cluster), k).name = fat32_format_name(NAME_A)

-----------------------------------------------------------------------------
(* The live DIRECTORY entries of the root whose 11 bytes are the normalized *)
(* form of name.                                                            *)
RootHits(name) ==
    {k \in LiveSlots(DirBuf(ROOT_CLUSTER)) :
        /\ IsDir(EntryAt(DirBuf(ROOT_CLUSTER), k))
        /\ EntryAt(DirBuf(ROOT_CLUSTER), k).name = fat32_format_name(name)}

(* The cluster ls is to list for a path.                                    *)
Listed(path) ==
    IF path = <<>> THEN ctx.current_cluster
    ELSE IF path = <<CH_SLASH>> THEN ROOT_CLUSTER
    ELSE IF RootHits(Tail(path)) # {}
         THEN fat32_get_cluster_from_entry(
                  EntryAt(DirBuf(ROOT_CLUSTER), Lowest(RootHits(Tail(path)))))
         ELSE ctx.current_cluster

(* The names of the live entries of a directory buffer, in slot order.      *)
RECURSIVE NamesFrom(_, _)
NamesFrom(buf, i) ==
    IF i >= FirstNul(buf, 0) THEN <<>>
    ELSE IF i \in LiveSlots(buf)
         THEN <<ListedName(EntryAt(buf, i))>> \o NamesFrom(buf, i + 1)
         ELSE NamesFrom(buf, i + 1)

SinglePaths == {<<CH_SLASH>> \o name : name \in Names \cup {<<CH_DOT>>}}
DotDotPath == <<CH_SLASH, CH_DOT, CH_DOT>>

LsListsFor(paths) ==
    \A path \in paths :
        LET p == process_command(Io, ctx, "ls", path)
        IN  /\ p.ret = 0
            /\ p.msg = ""
            /\ p.io = Io
            /\ p.c = ctx
            /\ p.lines = NamesFrom(DirBuf(Listed(path)), 0)

(* C18: on a valid image ls always lists and succeeds: the cursor's cluster *)
(* with no path, cluster 2 with "/", and with "/<name>" the cluster of the  *)
(* root's DIRECTORY entry of that name or, when the root has none, the      *)
(* cursor's cluster; this for every single-component name, "." and ".."     *)
(* included.                                                                *)
C18_LsAlwaysLists ==
    Valid => LsListsFor({<<>>, <<CH_SLASH>>} \cup SinglePaths \cup {DotDotPath})

-----------------------------------------------------------------------------
(* Sessions that fill the image.  FillGap is the number of clusters still   *)
(* free when the model takes over.                                          *)
FillGap == 2

FormattedImage ==
    fat32_format([disk |-> CreateImage.disk, size |-> CreateImage.size,
                  budget |-> NoFault], ZeroCtx)

(* The image and cursor left by "format" followed by made times             *)
(* "mkdir a; cd /a": cluster j holds "." -> j, ".." -> j - 1 and, but for   *)
(* the last one, "a" -> j + 1; clusters 2 .. made + 2 are end-of-chain in   *)
(* both FAT copies.                                                         *)
ChainImage(made) ==
    LET f == FormattedImage
        last == ROOT_CLUSTER + made
        fatOf(k) ==
            [i \in 0..(FAT_PER_SECTOR - 1) |->
                IF k * FAT_PER_SECTOR + i \in (ROOT_CLUSTER + 1)..last THEN EOC
                ELSE AsFat(Get(f.io.disk, FAT_START + k))[i]]
        dirOf(j) ==
            LET own == NewDirBuffer(j, IF j = ROOT_CLUSTER THEN 0 ELSE j - 1)
            IN  IF j < last
                THEN SetEntry(own, 2, DirEntryOf(fat32_format_name(NAME_A),
                                                 ATTR_DIRECTORY, j + 1))[0]
                ELSE own[0]
        sectors ==
            {0} \cup {FAT_START + copy * FAT_SIZE_32 + k :
                         copy \in 0..(FAT_COUNT - 1), k \in 0..(last \div FAT_PER_SECTOR)}
                \cup {DATA_START + (j - ROOT_CLUSTER) * SECTORS_PER_CLUSTER :
                         j \in ROOT_CLUSTER..last}
    IN  [disk |-> [s \in sectors |->
                     IF s = 0 THEN Get(f.io.disk, 0)
                     ELSE IF s < DATA_START
                          THEN FatSector(fatOf((s - FAT_START) % FAT_SIZE_32))
                          ELSE DirSector(dirOf(ROOT_CLUSTER
                                   + (s - DATA_START) \div SECTORS_PER_CLUSTER))],
         size |-> f.io.size,
         c |-> [f.c EXCEPT !.current_cluster = last,
                           !.current_path = IF made = 0 THEN <<CH_SLASH>>
                                            ELSE <<CH_SLASH>> \o NAME_A]]

InitFill ==
    LET n == ChainImage(FormattedImage.c.total_clusters - 3 - FillGap)
    IN  /\ disk = n.disk
        /\ disk_size = n.size
        /\ ctx = n.c
        /\ ret = 0

(* One command line on the nearly full image.                               *)
FillCommand(cmd, arg) ==
    LET r == process_command(Io, ctx, cmd, arg)
    IN  /\ disk' = r.io.disk
        /\ disk_size' = r.io.size
        /\ ctx' = r.c
        /\ ret' = r.ret

FillMkdir == \E name \in Names : FillCommand("mkdir", name)
FillTouch == \E name \in Names : FillCommand("touch", name)
FillCd == \E name \in Names : FillCommand("cd", <<CH_SLASH>> \o name)

NextFill == FillMkdir \/ FillTouch \/ FillCd

SpecFill == InitFill /\ [][NextFill]_vars

(* The successful mkdirs since the format: each one marked one free cluster *)
(* and nothing but format clears a mark.                                    *)
MkdirsDone ==
    Cardinality({cluster \in (ROOT_CLUSTER + 1)..(ctx.total_clusters - 1) :
                    FatRaw(disk, 0, cluster) # 0})

(* mkdir refused for want of a cluster, image and context untouched.        *)
OutOfSpace ==
    \A name \in Names :
        LET p == process_command(Io, ctx, "mkdir", name)
        IN  /\ p.msg = "mkdir failed"
            /\ p.io = Io
            /\ p.c = ctx

FullAfter(count) ==
    Valid =>
        /\ fat32_find_free_cluster(Io, ctx) = 0 <=> MkdirsDone = count
        /\ fat32_find_free_cluster(Io, ctx) = 0 => OutOfSpace

(* C19 as stated: from a freshly formatted image the free-cluster search    *)
(* returns 0 exactly when total_clusters - 2 mkdirs have succeeded, and the *)
(* next mkdir fails leaving the image as it was.                            *)
C19_FullAfterTotalMinus2 == FullAfter(ctx.total_clusters - 2)

(* C19 amended: from a freshly formatted image the free-cluster search      *)
(* returns 0 exactly when total_clusters - 3 mkdirs have succeeded (the     *)
(* scan covers clusters 2 .. total_clusters - 1 and the root holds cluster  *)
(* 2), and the next mkdir fails leaving the image as it was.                *)
C19_FullAfterTotalMinus3 == FullAfter(ctx.total_clusters - 3)

(* No cluster is free and the cursor stands in an empty directory, so that  *)
(* only the want of a cluster stops mkdir.                                  *)
C19_Witness ==
    /\ Valid
    /\ fat32_find_free_cluster(Io, ctx) = 0
    /\ MkdirsDone = ctx.total_clusters - 3
    /\ LiveSlots(DirBuf(ctx.current_cluster)) = {0, 1}

-----------------------------------------------------------------------------
(* Sessions on a nearly full root directory.  DirGap is the number of slots *)
(* still free when the model takes over.                                    *)
DirGap == 2

(* The name of the n-th file: "f", a digit and a letter.                    *)
FileName(n) == <<102, 48 + (n \div 16), 65 + (n % 16)>>

(* The image left by "format" followed by count times "touch <file>" with   *)
(* distinct names: the root holds ".", ".." and count ARCHIVE entries.      *)
FullDirImage(count) ==
    LET f == FormattedImage
        own == NewDirBuffer(ROOT_CLUSTER, 0)
        entry(n) == IF n < 2 THEN EntryAt(own, n)
                    ELSE IF n < 2 + count
                         THEN DirEntryOf(fat32_format_name(FileName(n)), ATTR_ARCHIVE, 0)
                         ELSE ZeroEntry
        buf == [i \in 0..(SECTORS_PER_CLUSTER - 1) |->
                  [k \in 0..(ENTRIES_PER_SECTOR - 1) |-> entry(i * ENTRIES_PER_SECTOR + k)]]
        w == fat32_write_cluster(f.io, f.c, ROOT_CLUSTER, buf)
    IN  [disk |-> w.io.disk, size |-> w.io.size, c |-> f.c]

InitDir ==
    LET n == FullDirImage(ENTRY_COUNT - 2 - DirGap)
    IN  /\ disk = n.disk
        /\ disk_size = n.size
        /\ ctx = n.c
        /\ ret = 0

SpecDir == InitDir /\ [][Next]_vars

FRESH_NAME == <<122>>

AllLive(buf) == LiveSlots(buf) = 0..(ENTRY_COUNT - 1)

(* C20: no directory holds more than 128 live entries, "." and ".."         *)
(* included; when all 128 slots of the current directory are live, mkdir    *)
(* and touch fail, and the failing mkdir leaves the image, both FAT copies  *)
(* included, as it was.                                                     *)
C20_DirectoryFull ==
    Valid =>
        /\ \A n \in Tree : Cardinality(LiveSlots(DirBuf(n))) <= ENTRY_COUNT
        /\ AllLive(DirBuf(ctx.current_cluster)) =>
               \A name \in Names \cup {FRESH_NAME} :
                   LET m == process_command(Io, ctx, "mkdir", name)
                       t == process_command(Io, ctx, "touch", name)
                   IN  /\ m.msg = "mkdir failed"
                       /\ m.io = Io
                       /\ m.c = ctx
                       /\ t.msg = "touch failed"
                       /\ t.io = Io
                       /\ t.c = ctx

(* The root is full, its last slot given to a directory by mkdir, and a     *)
(* cluster is still free.                                                   *)
C20_Witness ==
    /\ Valid
    /\ ctx.current_cluster = ROOT_CLUSTER
    /\ AllLive(DirBuf(ROOT_CLUSTER))
    /\ IsDir(EntryAt(DirBuf(ROOT_CLUSTER), ENTRY_COUNT - 1))
    /\ fat32_find_free_cluster(Io, ctx) # 0

-----------------------------------------------------------------------------
(* The geometry the fields of boot sector bs dictate.                       *)
GeometryOf(bs) ==
    [fat_size |-> bs.fat_size_32,
     fat_start |-> bs.reserved_sectors,
     data_start |-> bs.reserved_sectors + bs.fat_count * bs.fat_size_32,
     total_clusters |->
         (bs.total_sectors_32 - (bs.reserved_sectors + bs.fat_count * bs.fat_size_32))
             \div bs.sectors_per_cluster]

SameGeometry(c, g) ==
    /\ c.fat_size = g.fat_size
    /\ c.fat_start = g.fat_start
    /\ c.data_start = g.data_start
    /\ c.total_clusters = g.total_clusters

(* C21: closing the session and opening a new one on the same path of a     *)
(* validly formatted image leaves the image unchanged and starts with       *)
(* cursor ("/", cluster 2) and the geometry read from sector 0; ls at the   *)
(* root lists the same entries in the same order as before the close.       *)
C21_ReopenKeepsImage ==
    Valid =>
        LET n == fat32_init([exists |-> TRUE, disk |-> disk, size |-> disk_size])
            before == process_command(Io, ctx, "ls", <<CH_SLASH>>)
            after == process_command([disk |-> n.disk, size |-> n.size, budget |-> NoFault],
                                     n.c, "ls", <<CH_SLASH>>)
        IN  /\ n.disk = disk
            /\ n.size = disk_size
            /\ n.c.current_path = <<CH_SLASH>>
            /\ n.c.current_cluster = ROOT_CLUSTER
            /\ SameGeometry(n.c, GeometryOf(AsBoot(Get(disk, 0))))
            /\ after.ret = 0
            /\ after.msg = before.msg
            /\ after.lines = before.lines

(* The root lists ".", "..", a directory and a file while the cursor is at  *)
(* the root.                                                                *)
C21_Witness ==
    /\ Valid
    /\ ctx.current_cluster = ROOT_CLUSTER
    /\ ctx.current_path = <<CH_SLASH>>
    /\ Cardinality(LiveSlots(DirBuf(ROOT_CLUSTER))) = 4
    /\ \E k \in LiveSlots(DirBuf(ROOT_CLUSTER)) :
           EntryAt(DirBuf(ROOT_CLUSTER), k).attr = ATTR_ARCHIVE
    /\ Children(ROOT_CLUSTER) # {}

-----------------------------------------------------------------------------
(* Sessions that create files under many names.  MaxFiles is the number of  *)
(* files the root takes.                                                    *)
MaxFiles == 3

(* "a", "A.b", "a.b.c", "a..", ".a", "abcdefghij.k", "a.bcde",              *)
(* "abcdefghijklm", "." and "..".                                           *)
NameInputs ==
    {<<97>>, <<65, 46, 98>>, <<97, 46, 98, 46, 99>>, <<97, 46, 46>>, <<46, 97>>,
     <<97, 98, 99, 100, 101, 102, 103, 104, 105, 106, 46, 107>>,
     <<97, 46, 98, 99, 100, 101>>,
     <<97, 98, 99, 100, 101, 102, 103, 104, 105, 106, 107, 108, 109>>,
     <<46>>, <<46, 46>>}

NameTouch ==
    /\ FirstNul(DirBuf(ROOT_CLUSTER), 0) < 2 + MaxFiles
    /\ \E name \in NameInputs : Command("touch", name)

NextNames == Format \/ NameTouch

SpecNames == Init /\ [][NextNames]_vars

(* The 11 bytes with the trailing spaces taken off.                         *)
Trimmed(formatted_name) == TrimRight(formatted_name, 11)

(* C22: name normalization is idempotent: normalizing the trimmed 11-byte   *)
(* result of normalizing x gives the same 11 bytes, for every input x,      *)
(* several dots, a leading dot and long base names included; so it does for *)
(* the name a successful touch stores.                                      *)
C22_FormatNameIdempotent ==
    Valid =>
        \A x \in NameInputs :
            /\ fat32_format_name(Trimmed(fat32_format_name(x))) = fat32_format_name(x)
            /\ LET p == process_command(Io, ctx, "touch", x)
                   slot == FindFreeEntry(DirBuf(ctx.current_cluster), 0)
                   stored == EntryAt(fat32_read_cluster(p.io, p.c,
                                         ctx.current_cluster).buf, slot).name
               IN  p.msg = "Ok" => fat32_format_name(Trimmed(stored)) = stored

(* The bytes of input x that normalization is to put at positions 1..11.    *)
Normal(x) ==
    LET dots == {i \in 1..Len(x) : x[i] = CH_DOT}
        d == CHOOSE i \in dots : \A j \in dots : i <= j
    IN  IF x = <<CH_DOT>>
        THEN <<CH_DOT>> \o [i \in 1..10 |-> CH_SPACE]
        ELSE IF x = <<CH_DOT, CH_DOT>>
        THEN <<CH_DOT, CH_DOT>> \o [i \in 1..9 |-> CH_SPACE]
        ELSE IF dots # {}
        THEN [i \in 1..8 |-> IF i <= Min(8, d - 1) THEN x[i] ELSE CH_SPACE]
             \o [i \in 1..3 |-> IF i <= Min(3, Len(x) - d) THEN x[d + i] ELSE CH_SPACE]
        ELSE [i \in 1..11 |-> IF i <= Min(11, Len(x)) THEN x[i] ELSE CH_SPACE]

(* C23: normalization fills exactly 11 bytes and keeps the case: "." and    *)
(* ".." give the dots and spaces; with a dot, up to 8 bytes before the      *)
(* first dot at positions 0..7 and up to 3 bytes after it at 8..10;         *)
(* without one, up to 11 bytes at 0..10; spaces elsewhere.  A successful    *)
(* touch stores exactly these bytes.                                        *)
C23_FormatNameLayout ==
    \A x \in NameInputs :
        /\ Len(fat32_format_name(x)) = 11
        /\ fat32_format_name(x) = Normal(x)
        /\ LET p == process_command(Io, ctx, "touch", x)
               slot == FindFreeEntry(DirBuf(ctx.current_cluster), 0)
           IN  p.msg = "Ok" =>
                   EntryAt(fat32_read_cluster(p.io, p.c, ctx.current_cluster).buf, slot).name
                       = Normal(x)

(* The root holds the file made from "abcdefghij.k" and the one made from   *)
(* "A.b".                                                                   *)
C23_Witness ==
    /\ Valid
    /\ \E k \in LiveSlots(DirBuf(ROOT_CLUSTER)) :
           EntryAt(DirBuf(ROOT_CLUSTER), k).name
               = <<97, 98, 99, 100, 101, 102, 103, 104, 107, 32, 32>>
    /\ \E k \in LiveSlots(DirBuf(ROOT_CLUSTER)) :
           EntryAt(DirBuf(ROOT_CLUSTER), k).name
               = <<65, 32, 32, 32, 32, 32, 32, 32, 98, 32, 32>>

-----------------------------------------------------------------------------
(* The image with top nibble 5 in the slot of cluster 3 of the first FAT    *)
(* copy and top nibble 3 in that of the second, the low 28 bits kept.       *)
TopBits(io) ==
    [io EXCEPT !.disk =
        Put(Put(@, FAT_START,
                FatSector([AsFat(Get(io.disk, FAT_START)) EXCEPT
                              ![3] = 5 * FAT_MASK + (@ % FAT_MASK)])),
            FAT_START + FAT_SIZE_32,
            FatSector([AsFat(Get(io.disk, FAT_START + FAT_SIZE_32)) EXCEPT
                          ![3] = 3 * FAT_MASK + (@ % FAT_MASK)]))]

(* C24: for every cluster below total_clusters and every value v, setting   *)
(* the FAT entry and reading it back gives the low 28 bits of v; the write  *)
(* keeps the top 4 bits stored in the slot of each copy and changes no      *)
(* other FAT entry and no other sector.                                     *)
C24_FatRoundTrip ==
    \A io \in {Io, TopBits(Io)} :
        \A cluster \in {0, 1, 2, 3, MaxCluster + 1, FAT_PER_SECTOR, ctx.total_clusters - 1} :
            \A v \in {0, 5, EOC, EOC + 8, 2147483647} :
                (cluster >= 0 /\ cluster < ctx.total_clusters) =>
                    LET w == fat32_set_fat_entry(io, ctx, cluster, v)
                    IN  /\ w.rc = 0
                        /\ fat32_get_fat_entry(w.io, ctx, cluster) = v % FAT_MASK
                        /\ w.io.size = io.size
                        /\ \A copy \in 0..(FAT_COUNT - 1) :
                               FatRaw(w.io.disk, copy, cluster) \div FAT_MASK
                                   = FatRaw(io.disk, copy, cluster) \div FAT_MASK
                        /\ \A s \in DOMAIN io.disk \cup DOMAIN w.io.disk :
                               \/ Get(w.io.disk, s) = Get(io.disk, s)
                               \/ /\ s \in {FAT_START + copy * FAT_SIZE_32
                                               + (cluster * 4) \div SECTOR_SIZE :
                                            copy \in 0..(FAT_COUNT - 1)}
                                  /\ \A i \in 0..(FAT_PER_SECTOR - 1) :
                                         i # cluster % FAT_PER_SECTOR =>
                                             AsFat(Get(w.io.disk, s))[i]
                                                 = AsFat(Get(io.disk, s))[i]

(* Clusters 2 and 3 have been marked by format and mkdir and read back as   *)
(* end-of-chain.                                                            *)
C24_Witness ==
    /\ Valid
    /\ FatRaw(disk, 0, 0) = MEDIA_ENTRY
    /\ fat32_get_fat_entry(Io, ctx, ROOT_CLUSTER) = EOC
    /\ fat32_get_fat_entry(Io, ctx, 3) = EOC
    /\ fat32_get_fat_entry(TopBits(Io), ctx, 3) = EOC

-----------------------------------------------------------------------------
(* C25: for every cluster c >= 2 inside the image, writing a cluster buffer *)
(* and reading it back gives the same buffer, and no sector outside the     *)
(* eight of c changes; for c < 2 write and read fail and the image is       *)
(* untouched.                                                               *)
C25_ClusterRoundTrip ==
    Valid =>
        \A cluster \in {0, 1, 2, 3, MaxCluster + 1,
                        (disk_size - ctx.data_start) \div SECTORS_PER_CLUSTER + 1} :
            \A buf \in {ZeroCluster, NewDirBuffer(cluster, ROOT_CLUSTER),
                        SetEntry(DirBuf(ROOT_CLUSTER), ENTRY_COUNT - 1,
                                 DirEntryOf(fat32_format_name(NAME_B), ATTR_ARCHIVE, 0))} :
                LET w == fat32_write_cluster(Io, ctx, cluster, buf)
                    r == fat32_read_cluster(w.io, ctx, cluster)
                IN  IF cluster < 2
                    THEN /\ w.rc = -1
                         /\ w.io = Io
                         /\ fat32_read_cluster(Io, ctx, cluster).rc = -1
                    ELSE /\ w.rc = 0
                         /\ r.rc = 0
                         /\ r.buf = buf
                         /\ w.io.size = disk_size
                         /\ \A s \in DOMAIN disk \cup DOMAIN w.io.disk :
                                s \notin (ctx.data_start + (cluster - 2) * 8)
                                           ..(ctx.data_start + (cluster - 2) * 8 + 7)
                                    => Get(w.io.disk, s) = Get(disk, s)

(* mkdir has written cluster 3 as a fresh directory under the root.         *)
C25_Witness ==
    /\ Valid
    /\ DirBuf(3) = NewDirBuffer(3, ROOT_CLUSTER)
    /\ fat32_get_cluster_from_entry(EntryAt(DirBuf(ROOT_CLUSTER), 2)) = 3

-----------------------------------------------------------------------------
(* C26: the free-cluster search returns the smallest cluster c with         *)
(* 2 <= c < total_clusters whose FAT entry reads 0, and 0 exactly when      *)
(* there is none; it never returns 1 nor a cluster at or above              *)
(* total_clusters.  Checked on the image as it is and on the image with its *)
(* lowest free cluster marked.                                              *)
C26_FindFreeSmallest ==
    Valid =>
        \A io \in {Io, fat32_set_fat_entry(Io, ctx, fat32_find_free_cluster(Io, ctx), EOC).io} :
            LET free == {cluster \in 2..(ctx.total_clusters - 1) :
                            FatRaw(io.disk, 0, cluster) % FAT_MASK = 0}
                found == fat32_find_free_cluster(io, ctx)
            IN  /\ found = 0 <=> free = {}
                /\ found # 0 => (found \in free /\ \A cluster \in free : found <= cluster)
                /\ found # 1
                /\ found < ctx.total_clusters

(* One cluster, the last of the scan, is still free.                        *)
C26_Witness ==
    /\ Valid
    /\ fat32_find_free_cluster(Io, ctx) = ctx.total_clusters - 1
    /\ FatRaw(disk, 0, ctx.total_clusters - 2) = EOC

-----------------------------------------------------------------------------
(* C27: for every cluster c >= total_clusters the FAT read returns          *)
(* 0x0FFFFFFF without reading the image (the slot of c = total_clusters     *)
(* holds 0 on a formatted image), and the FAT write fails and leaves the    *)
(* image, both FAT copies included, unchanged.                              *)
C27_FatOutOfRange ==
    /\ \A cluster \in {ctx.total_clusters, ctx.total_clusters + 1,
                       FAT_SIZE_32 * FAT_PER_SECTOR, EOC} :
           /\ fat32_get_fat_entry(Io, ctx, cluster) = EOC
           /\ \A v \in {0, 5, EOC} :
                  /\ fat32_set_fat_entry(Io, ctx, cluster, v).rc = -1
                  /\ fat32_set_fat_entry(Io, ctx, cluster, v).io = Io
    /\ Valid => FatRaw(disk, 0, ctx.total_clusters) = 0

(* A formatted image with a directory made: the slot after the last         *)
(* cluster of the scan holds 0 and reads as end-of-chain.                   *)
C27_Witness ==
    /\ Valid
    /\ ctx.total_clusters > MaxCluster
    /\ FatRaw(disk, 0, ctx.total_clusters) = 0
    /\ fat32_get_fat_entry(Io, ctx, ctx.total_clusters) = EOC
    /\ Children(ROOT_CLUSTER) # {}

-----------------------------------------------------------------------------
(* Sessions on image files made elsewhere: sector 0 is the boot sector of   *)
(* format with one field changed.                                           *)
BootSectors ==
    {FormatBoot,
     [FormatBoot EXCEPT !.signature = 0],
     [FormatBoot EXCEPT !.fs_type = <<70, 65, 84, 49, 54, 32, 32, 32>>],
     [FormatBoot EXCEPT !.fs_type = <<70, 65, 84, 51, 50, 120, 121, 122>>],
     [FormatBoot EXCEPT !.sectors_per_cluster = 0],
     [FormatBoot EXCEPT !.sectors_per_cluster = 4],
     [FormatBoot EXCEPT !.total_sectors_32 = TOTAL_SECTORS \div 2]}

(* fat32_is_valid on this image reaches the division with divisor 0.        *)
DivFault(d, size) ==
    /\ size > 0
    /\ AsBoot(Get(d, 0)).signature = SIGNATURE
    /\ IsPrefix(FS_PREFIX, AsBoot(Get(d, 0)).fs_type)
    /\ AsBoot(Get(d, 0)).sectors_per_cluster = 0

InitBoot ==
    \E bs \in BootSectors :
        LET found == [exists |-> TRUE, disk |-> Put(EmptyDisk, 0, BootSector(bs)),
                      size |-> TOTAL_SECTORS]
        IN  \/ InitFrom(found)
            \/ /\ DivFault(found.disk, found.size)
               /\ disk = found.disk
               /\ disk_size = found.size
               /\ ctx = ZeroCtx
               /\ ret = SIGFPE

(* The process killed inside fat32_is_valid, the image left as it is.       *)
Crash ==
    /\ DivFault(disk, disk_size)
    /\ ret' = SIGFPE
    /\ UNCHANGED <<disk, disk_size, ctx>>

(* A killed process takes no more commands; a new session may be started.   *)
BootCommand(cmd, arg) == ret # SIGFPE /\ Command(cmd, arg)

NextBoot ==
    \/ BootCommand("format", <<>>)
    \/ \E path \in LsPaths : BootCommand("ls", path)
    \/ \E name \in Names \cup {<<>>} : BootCommand("mkdir", name)
    \/ \E name \in Names \cup {<<>>} : BootCommand("touch", name)
    \/ \E path \in CdPaths \cup {<<>>} : BootCommand("cd", path)
    \/ Reopen
    \/ Crash

SpecBoot == InitBoot /\ [][NextBoot]_vars

(* C28: for every content of sector 0 the validation succeeds exactly when  *)
(* the signature is 0xAA55 and fs_type begins with "FAT32"; it returns a    *)
(* result, never faults, whatever the other fields hold, and on failure     *)
(* leaves the cached geometry as it was.                                    *)
C28_IsValidTotal ==
    /\ ret # SIGFPE
    /\ ~DivFault(disk, disk_size)
    /\ fat32_is_valid(Io, ctx).rc = 0
           <=> /\ AsBoot(Get(disk, 0)).signature = SIGNATURE
               /\ IsPrefix(FS_PREFIX, AsBoot(Get(disk, 0)).fs_type)
    /\ fat32_is_valid(Io, ctx).rc # 0 => fat32_is_valid(Io, ctx).c = ctx

(* C29: on success the validation caches the geometry computed from the     *)
(* fields of the boot sector it read: fat_start, data_start and             *)
(* total_clusters = (total_sectors_32 - data_start) / sectors_per_cluster,  *)
(* no constant standing in for a field.                                     *)
C29_GeometryFromBootSector ==
    (fat32_is_valid(Io, ctx).rc = 0 /\ ~DivFault(disk, disk_size)) =>
        SameGeometry(fat32_is_valid(Io, ctx).c, GeometryOf(AsBoot(Get(disk, 0))))

-----------------------------------------------------------------------------
(* An empty line: sscanf returns EOF, not 0, so the line is not skipped and *)
(* cmd is compared uninitialized: it may hold any word, those of earlier    *)
(* calls included; arg1 is zeroed.                                          *)
EmptyLine(io, c) ==
    {process_command(io, c, cmd, <<>>) :
        cmd \in {"format", "ls", "mkdir", "touch", "cd", "exit", "quit", "other"}}

(* C30: process_command returns -1 for exit and quit and whenever an error  *)
(* occurs (a failed format, ls, mkdir, touch or cd, a command on an invalid *)
(* image), and 0 for every successful command and for an empty line.        *)
C30_ReturnValue ==
    /\ \A io \in {Io, [Io EXCEPT !.budget = 0]} :
           \A cmd \in {"format", "ls", "mkdir", "touch", "cd", "exit", "quit"} :
               \A arg \in Names \cup {<<CH_SLASH>> \o name : name \in Names} :
                   LET p == process_command(io, ctx, cmd, arg)
                   IN  /\ (cmd \in {"exit", "quit"}
                             \/ p.msg \in {"Unknown disk format", "Format failed", "ls failed",
                                           "mkdir failed", "touch failed", "cd failed"})
                           => p.ret = -1
                       /\ (cmd \notin {"exit", "quit"} /\ p.msg \in {"Ok", ""})
                           => p.ret = 0
    /\ \A p \in EmptyLine(Io, ctx) : p.ret = 0

-----------------------------------------------------------------------------
(* C31: after a successful mkdir or touch of a name whose normalization     *)
(* drops no character (no dot and 1..11 characters, or base.ext with 0..8   *)
(* base and 1..3 extension characters) ls of the current directory prints   *)
(* exactly one line equal to the name, case kept.  Checked for "a", "A.b",  *)
(* ".a", "abcdefgh", "abcdefgh.ijk", "abcdefghi" and "abcdefghijk".         *)
C31_ListedAsCreated ==
    Valid =>
        \A cmd \in {"mkdir", "touch"} :
            \A x \in {<<97>>, <<65, 46, 98>>, <<46, 97>>,
                      <<97, 98, 99, 100, 101, 102, 103, 104>>,
                      <<97, 98, 99, 100, 101, 102, 103, 104, 46, 105, 106, 107>>,
                      <<97, 98, 99, 100, 101, 102, 103, 104, 105>>,
                      <<97, 98, 99, 100, 101, 102, 103, 104, 105, 106, 107>>} :
                LET p == process_command(Io, ctx, cmd, x)
                    l == process_command(p.io, p.c, "ls", <<>>)
                IN  p.msg = "Ok" =>
                        /\ l.msg = ""
                        /\ Cardinality({i \in 1..Len(l.lines) : l.lines[i] = x}) = 1

-----------------------------------------------------------------------------
(* C32: on a valid image the cursor's cluster is always an allocated        *)
(* directory: its FAT entry is 0x0FFFFFFF in both copies and it is the root *)
(* or a directory reachable from the root, also after a format run while    *)
(* the cursor stands in a subdirectory.                                     *)
C32_CursorAllocated ==
    Valid =>
        /\ EndOfChain(ctx.current_cluster)
        /\ ctx.current_cluster \in Tree

-----------------------------------------------------------------------------
(* Sessions that nest directories: format, mkdir, touch and cd, followed     *)
(* while the directories stay within clusters 2..DeepCluster.               *)
DeepCluster == 4

DeepCommand(cmd, arg) ==
    LET r == process_command(Io, ctx, cmd, arg)
    IN  /\ \A s \in DOMAIN r.io.disk :
               s < DATA_START + (DeepCluster - 1) * SECTORS_PER_CLUSTER
        /\ disk' = r.io.disk
        /\ disk_size' = r.io.size
        /\ ctx' = r.c
        /\ ret' = r.ret

NextDeep ==
    \/ DeepCommand("format", <<>>)
    \/ DeepCommand("mkdir", NAME_A)
    \/ DeepCommand("touch", NAME_B)
    \/ \E path \in {<<CH_SLASH>>, <<CH_SLASH, CH_DOT, CH_DOT>>, <<CH_SLASH>> \o NAME_A} :
           DeepCommand("cd", path)

SpecDeep == Init /\ [][NextDeep]_vars

(* C33: on a valid image the path shown in the prompt is "/" exactly when   *)
(* the cursor's cluster is the root cluster 2, also after descending two    *)
(* levels and going up with cd "/..".                                       *)
C33_RootPathIffRootCluster ==
    Valid => (ctx.current_path = <<CH_SLASH>> <=> ctx.current_cluster = ROOT_CLUSTER)

-----------------------------------------------------------------------------
(* C34: on a valid image no cluster is leaked: every cluster other than the *)
(* root whose FAT entry is not 0 is referenced by exactly one live          *)
(* DIRECTORY entry, other than "." and "..", of a directory reachable from  *)
(* the root.  Checked for the clusters of the first FAT sector.             *)
C34_NoLeakedCluster ==
    Valid =>
        LET refs == UNION {{<<d, k>> : k \in ChildSlots(DirBuf(d))} : d \in Tree}
        IN  \A n \in (ROOT_CLUSTER + 1)..(FAT_PER_SECTOR - 1) :
                FatRaw(disk, 0, n) % FAT_MASK # 0 =>
                    Cardinality({p \in refs :
                        fat32_get_cluster_from_entry(EntryAt(DirBuf(p[1]), p[2])) = n}) = 1

-----------------------------------------------------------------------------
(* The live DIRECTORY entries, other than "." and "..", of the directories  *)
(* reachable from the root, as (directory, slot), and the cluster of one.   *)
TreeRefs == UNION {{<<d, k>> : k \in ChildSlots(DirBuf(d))} : d \in Tree}

RefTarget(p) == fat32_get_cluster_from_entry(EntryAt(DirBuf(p[1]), p[2]))

(* C35: on a valid image the directories reachable from the root form a     *)
(* tree: no two live entries other than "." and ".." point to the same      *)
(* non-zero cluster, none points to the root cluster or to the directory    *)
(* holding it, and mkdir never hands out a cluster that a reachable entry   *)
(* already references.                                                      *)
C35_DirectoriesFormTree ==
    Valid =>
        LET refs == TreeRefs
            target == [p \in refs |-> RefTarget(p)]
            handed == fat32_find_free_cluster(Io, ctx)
        IN  /\ \A p \in refs : \A q \in refs :
                   (target[p] = target[q] /\ target[p] # 0) => p = q
            /\ \A p \in refs : target[p] \notin {ROOT_CLUSTER, p[1]}
            /\ \A name \in Names :
                   fat32_mkdir(Io, ctx, name).rc = 0 =>
                       \A p \in refs : target[p] # handed

(* Two nested directories and a third one beside them.                      *)
C35_Witness ==
    /\ Valid
    /\ Cardinality(TreeRefs) >= 2
    /\ \E p \in TreeRefs : p[1] # ROOT_CLUSTER
    /\ \E name \in Names : fat32_mkdir(Io, ctx, name).rc = 0

-----------------------------------------------------------------------------
(* C36: the cursor's cluster c always satisfies 2 <= c, and c <             *)
(* total_clusters on a valid image; no cd sets it to 0, and cd "/.." in     *)
(* the root succeeds and leaves cluster and path as they are.               *)
C36_CursorInRange ==
    /\ ctx.current_cluster >= ROOT_CLUSTER
    /\ Valid => ctx.current_cluster < fat32_is_valid(Io, ctx).c.total_clusters
    /\ \A path \in CdPaths \cup {<<>>} :
           LET p == process_command(Io, ctx, "cd", path)
           IN  /\ p.c.current_cluster >= ROOT_CLUSTER
               /\ (Valid /\ ctx.current_cluster = ROOT_CLUSTER
                         /\ path = <<CH_SLASH, CH_DOT, CH_DOT>>) =>
                      /\ p.msg = ""
                      /\ p.c.current_cluster = ROOT_CLUSTER
                      /\ p.c.current_path = ctx.current_path

(* The cursor has entered a subdirectory that holds a subdirectory.         *)
C36_Witness ==
    /\ Valid
    /\ ctx.current_cluster > ROOT_CLUSTER
    /\ EndOfChain(ctx.current_cluster)
    /\ Children(ctx.current_cluster) # {}

-----------------------------------------------------------------------------
(* The image with every FAT entry of clusters 2 .. total_clusters - 1 that  *)
(* is 0 set to 0x0FFFFFFF in both copies: no cluster is free.               *)
FullFat(io, c) ==
    LET used == 0..((c.total_clusters - 1) \div FAT_PER_SECTOR)
        fatOf(k) ==
            [i \in 0..(FAT_PER_SECTOR - 1) |->
                LET cluster == k * FAT_PER_SECTOR + i
                    raw == AsFat(Get(io.disk, FAT_START + k))[i]
                IN  IF cluster >= 2 /\ cluster < c.total_clusters /\ raw % FAT_MASK = 0
                    THEN EOC ELSE raw]
        sectors == {FAT_START + copy * FAT_SIZE_32 + k : copy \in 0..(FAT_COUNT - 1), k \in used}
    IN  [io EXCEPT !.disk =
            [s \in DOMAIN io.disk \cup sectors |->
                IF s \in sectors THEN FatSector(fatOf((s - FAT_START) % FAT_SIZE_32))
                ELSE io.disk[s]]]

-----------------------------------------------------------------------------
(* C38: cd and ls write nothing: the image after either, whether it         *)
(* succeeds or fails, is identical to the image before it, and ls also      *)
(* leaves the cursor's cluster and path unchanged.                          *)
C38_CdLsReadOnly ==
    /\ \A path \in CdPaths \cup {<<>>} :
           process_command(Io, ctx, "cd", path).io = Io
    /\ \A path \in LsPaths \cup {<<CH_SLASH, CH_DOT, CH_DOT>>} :
           LET p == process_command(Io, ctx, "ls", path)
           IN  /\ p.io = Io
               /\ p.c.current_cluster = ctx.current_cluster
               /\ p.c.current_path = ctx.current_path

(* From inside a subdirectory that holds an entry ls lists three lines, ls  *)
(* of a path fails, and cd goes back up.                                    *)
C38_Witness ==
    /\ Valid
    /\ ctx.current_cluster # ROOT_CLUSTER
    /\ Len(process_command(Io, ctx, "ls", <<>>).lines) >= 3
    /\ process_command(Io, ctx, "ls", <<CH_SLASH, CH_DOT, CH_DOT>>).msg = "ls failed"
    /\ process_command(Io, ctx, "cd", <<CH_SLASH, CH_DOT, CH_DOT>>).c.current_cluster = ROOT_CLUSTER

-----------------------------------------------------------------------------
(* C39: from a directory D reachable from the root, on a valid image, a     *)
(* successful cd "/n" followed by cd "/.." puts the cursor's cluster back   *)
(* on D, for every subdirectory n made by mkdir in D, at every nesting      *)
(* depth: for the subdirectories D holds and for one made now.              *)
C39_DownThenUp ==
    (Valid /\ ctx.current_cluster \in Tree) =>
        \A name \in Names :
            LET made == process_command(Io, ctx, "mkdir", name)
                ThereAndBack(io, c) ==
                    LET down == process_command(io, c, "cd", <<CH_SLASH>> \o name)
                        up == process_command(down.io, down.c, "cd", <<CH_SLASH, CH_DOT, CH_DOT>>)
                    IN  down.msg = "" =>
                            /\ up.msg = ""
                            /\ up.c.current_cluster = ctx.current_cluster
            IN  /\ ThereAndBack(Io, ctx)
                /\ made.msg = "Ok" => ThereAndBack(made.io, made.c)

(* The cursor stands in a first-level directory that holds a subdirectory.  *)
C39_Witness ==
    /\ Valid
    /\ ctx.current_cluster \in Children(ROOT_CLUSTER)
    /\ \E name \in Names :
           process_command(Io, ctx, "cd", <<CH_SLASH>> \o name).c.current_cluster
               \in Children(ctx.current_cluster) \ {ctx.current_cluster}

-----------------------------------------------------------------------------
(* C40: fat32_init keeps the content of an existing file only when its      *)
(* sector 0 passes the validation; for a missing file and for an existing   *)
(* file that fails it (empty, shorter than one sector, wrong signature,     *)
(* wrong fs_type) the image after a successful init is 40,960 sectors, all  *)
(* zero (no sector of it holds anything else), and invalid until format.   *)
(* Checked for the files sessions start on, for files holding only a        *)
(* sector 0, and for the current image.                                     *)
C40_InitKeepsOnlyValid ==
    \A found \in FoundFiles
                 \cup {[exists |-> TRUE, disk |-> disk, size |-> disk_size]}
                 \cup {[exists |-> TRUE, disk |-> Put(EmptyDisk, 0, BootSector(bs)),
                        size |-> size] : bs \in BootSectors, size \in {1, TOTAL_SECTORS}} :
        LET n == fat32_init(found)
            io == [disk |-> n.disk, size |-> n.size, budget |-> NoFault]
        IN  IF found.exists /\ BootValid(found.disk, found.size)
            THEN /\ n.disk = found.disk
                 /\ n.size = found.size
            ELSE /\ n.size = TOTAL_SECTORS
                 /\ \A s \in DOMAIN n.disk : n.disk[s] = ZeroSector
                 /\ process_command(io, n.c, "ls", <<>>).msg = "Unknown disk format"
                 /\ process_command(io, n.c, "format", <<>>).msg = "Ok"

(* A session that started on a valid file longer than 40,960 sectors goes   *)
(* on with that file; a new session on it would keep it again.              *)
C40_Witness ==
    /\ Valid
    /\ disk_size > TOTAL_SECTORS
    /\ Tree # {ROOT_CLUSTER}
    /\ fat32_init([exists |-> TRUE, disk |-> disk, size |-> disk_size]).disk = disk

====
